---- MODULE Spec2Model ----
(***************************************************************************)
(* Clinic API (appointments, exams, results, push tokens, users).          *)
(*                                                                         *)
(* The store `prisma` holds one table per Prisma model used by the         *)
(* controllers.  Each Express handler is one action: it reads the request  *)
(* (caller identity attached by the gate, params, body), runs the checks   *)
(* of the handler in source order and performs its single write.  The      *)
(* sequential specifications run one request to completion before the      *)
(* next starts; the racing specification splits createConsulta and         *)
(* createExame at their awaits.                                            *)
(***************************************************************************)
EXTENDS Integers, Sequences, FiniteSets, TLC

VARIABLES
    prisma,     \* the persistent store: [usuario, consulta, exame, resultadoExame, pushToken]
    tz,         \* the server's local time zone, minutes east of UTC (fixed per run)
    req,        \* the request being answered (op "none" when idle)
    res,        \* the response sent for req
    pre,        \* the store as it was when req arrived
    inflight    \* requests in flight: racing create requests (slot -> handler frame), or
                \* the HTTP request passing the middleware chain of its router

vars == <<prisma, tz, req, res, pre, inflight>>

---------------------------------------------------------------------------
(* Bounds of the model *)

\* most rows the appointment, exam and result tables may hold together
MaxBookings == 2
\* most user rows ever created in the user-management specification
MaxUsuarios == 2
\* most push-token rows ever created in the push-token specification
MaxPushTokens == 2

---------------------------------------------------------------------------
(* Values *)

Perfis == {"ADMIN", "PACIENTE", "MEDICO", "ATENDENTE"}

\* Prisma stores SQL NULL for an optional column that was not supplied
NULL == "null"

\* passwords a request may send, as character sequences: none, seven and
\* eight characters
Senha0 == <<>>
Senha7 == <<"1", "2", "3", "4", "5", "6", "7">>
Senha8 == <<"1", "2", "3", "4", "5", "6", "7", "8">>
Senha9 == <<"a", "b", "c", "d", "e", "f", "g", "h", "i">>

\* bcrypt.hash(senha, 10): a value that determines senha and differs from it
bcryptHash(senha) == <<"bcrypt", senha>>

\* users of the booking specifications: two patients, two doctors, an
\* administrator and an attendant
Usuarios0 ==
    { [id |-> "p1",  nome |-> "Ana",   email |-> "p1@c",  senhaHash |-> bcryptHash(Senha8), perfil |-> "PACIENTE",  ativo |-> TRUE],
      [id |-> "p2",  nome |-> "Bia",   email |-> "p2@c",  senhaHash |-> bcryptHash(Senha8), perfil |-> "PACIENTE",  ativo |-> TRUE],
      [id |-> "m1",  nome |-> "Caio",  email |-> "m1@c",  senhaHash |-> bcryptHash(Senha8), perfil |-> "MEDICO",    ativo |-> TRUE],
      [id |-> "m2",  nome |-> "Davi",  email |-> "m2@c",  senhaHash |-> bcryptHash(Senha8), perfil |-> "MEDICO",    ativo |-> TRUE],
      [id |-> "adm", nome |-> "Eva",   email |-> "adm@c", senhaHash |-> bcryptHash(Senha8), perfil |-> "ADMIN",     ativo |-> TRUE],
      [id |-> "ate", nome |-> "Fabio", email |-> "ate@c", senhaHash |-> bcryptHash(Senha8), perfil |-> "ATENDENTE", ativo |-> TRUE] }

\* an id no user row has
GhostId == "ghost"

\* time-of-day strings a request may send, as character sequences; calendar
\* days ("YYYY-MM-DD") are day numbers
H0000 == <<"0", "0", ":", "0", "0">>
H1000 == <<"1", "0", ":", "0", "0">>
H1030 == <<"1", "0", ":", "3", "0">>
H2330 == <<"2", "3", ":", "3", "0">>

\* server time zones: America/Sao_Paulo (UTC-3) and UTC
TzOffsets == {0 - 180, 0}

---------------------------------------------------------------------------
(* JavaScript string and Date primitives used by the booking handlers *)

MsPerMinute == 60 * 1000
MsPerHour == 60 * MsPerMinute
MsPerDay == 24 * MsPerHour

\* the value of a Date that holds NaN
InvalidDate == 0 - 1

\* parseInt's NaN
NaN == 0 - 1

Digits == {"0", "1", "2", "3", "4", "5", "6", "7", "8", "9"}

DigitVal(c) ==
    CASE c = "0" -> 0 [] c = "1" -> 1 [] c = "2" -> 2 [] c = "3" -> 3 [] c = "4" -> 4
      [] c = "5" -> 5 [] c = "6" -> 6 [] c = "7" -> 7 [] c = "8" -> 8 [] c = "9" -> 9

\* index of the first sep in s at or after i, Len(s)+1 when there is none
RECURSIVE IndexOf(_, _, _)
IndexOf(s, sep, i) ==
    IF i > Len(s) THEN Len(s) + 1
    ELSE IF s[i] = sep THEN i
    ELSE IndexOf(s, sep, i + 1)

\* s.split(sep): the sequence of pieces of s between separators
RECURSIVE split(_, _)
split(s, sep) ==
    LET j == IndexOf(s, sep, 1) IN
    IF j > Len(s) THEN <<s>>
    ELSE <<SubSeq(s, 1, j - 1)>> \o split(SubSeq(s, j + 1, Len(s)), sep)

\* the longest prefix of s made of digits
RECURSIVE DigitPrefix(_)
DigitPrefix(s) ==
    IF s = <<>> \/ Head(s) \notin Digits THEN <<>>
    ELSE <<Head(s)>> \o DigitPrefix(Tail(s))

RECURSIVE DigitsValue(_)
DigitsValue(s) ==
    IF s = <<>> THEN 0
    ELSE 10 * DigitsValue(SubSeq(s, 1, Len(s) - 1)) + DigitVal(s[Len(s)])

\* parseInt(s): the number its leading digits spell, NaN when it has none
parseInt(s) ==
    IF DigitPrefix(s) = <<>> THEN NaN ELSE DigitsValue(DigitPrefix(s))

\* new Date(dia) for a date-only string: midnight UTC of that day
newDate(dia) == dia * MsPerDay

\* date.setHours(h, m, 0, 0): the fields of the date's LOCAL calendar day are
\* replaced; zone is the server's offset in minutes east of UTC
setHours(date, h, m, zone) ==
    IF h = NaN \/ m = NaN THEN InvalidDate
    ELSE LET local == date + zone * MsPerMinute
             localDay == local \div MsPerDay
         IN  localDay * MsPerDay + h * MsPerHour + m * MsPerMinute + 0 * 1000 + 0
               - zone * MsPerMinute

\* the combined timestamp computed by createConsulta and createExame
combineDataHora(dia, hora, zone) ==
    LET parts == split(hora, ":")
        horas == parts[1]
        minutos == IF Len(parts) >= 2 THEN parts[2] ELSE <<>>
    IN  setHours(newDate(dia), parseInt(horas), parseInt(minutos), zone)

---------------------------------------------------------------------------
(* Requests and responses *)

\* a request body with no fields
NoBody == [f \in {} |-> 0]

\* `const { f } = req.body` is undefined when the body has no field f;
\* `!f` is also true of the empty string
has(body, f) == f \in DOMAIN body
truthyStr(body, f) == has(body, f) /\ body[f] # ""
truthySeq(body, f) == has(body, f) /\ body[f] # <<>>

Resp(status, code, body) == [status |-> status, code |-> code, body |-> body]

\* res.status(s).json({ error: { code, message } })
Err(status, code) == Resp(status, code, NULL)

NoReq == [op |-> "none", userId |-> NULL, userPerfil |-> NULL, id |-> 0, body |-> NoBody]
NoRes == Resp(0, "NONE", NULL)

Request(op, userId, userPerfil, id, body) ==
    [op |-> op, userId |-> userId, userPerfil |-> userPerfil, id |-> id, body |-> body]

\* what a handler run yields: the response and the store it leaves
Outcome(r, db) == [res |-> r, db |-> db]

---------------------------------------------------------------------------
(* Storage client (Prisma) *)

\* rows of a table with the given id (none or one: id is the primary key)
findUnique(table, id) == {row \in table : row.id = id}

\* the one element of a singleton set
The(S) == CHOOSE x \in S : TRUE

\* include: { paciente: select id, nome, email; medico: select id, nome, email }
Resumo(usuarios, id) ==
    IF findUnique(usuarios, id) = {} THEN NULL
    ELSE LET u == The(findUnique(usuarios, id))
         IN  [id |-> u.id, nome |-> u.nome, email |-> u.email]

Incluir(db, registro) ==
    [registro |-> registro,
     paciente |-> Resumo(db.usuario, registro.pacienteId),
     medico   |-> Resumo(db.usuario, registro.medicoId)]

\* the tables of the two booking kinds
Kinds == {"consulta", "exame"}

NumBookings(db) ==
    Cardinality(db.consulta) + Cardinality(db.exame) + Cardinality(db.resultadoExame)

\* a run that adds a row is taken only while the tables hold fewer than max rows
Cabe(out, db, max) == out.res.status = 201 => NumBookings(db) < max

\* the status a booking row gets when create supplies none
StatusDefault == "AGENDADA"

---------------------------------------------------------------------------
(* Booking handlers: createConsulta / createExame *)

\* "Validação básica": exams also require nome
createCamposFaltando(k, body) ==
    \/ k = "exame" /\ ~truthyStr(body, "nome")
    \/ ~truthyStr(body, "pacienteId")
    \/ ~truthyStr(body, "medicoId")
    \/ ~has(body, "dia")
    \/ ~truthySeq(body, "hora")

\* mutant: the own-id check is left out
createProibidoNunca(userId, userPerfil, body) == FALSE

\* "Verifica permissões": a PACIENTE books only for themselves
createProibido(userId, userPerfil, body) ==
    userPerfil = "PACIENTE" /\ body.pacienteId # userId

\* mutant: the doctor's perfil is not looked at
medicoInvalidoSoExiste(db, medicoId) == findUnique(db.usuario, medicoId) = {}

\* "Verifica se o médico existe e é médico"
medicoInvalido(db, medicoId) ==
    LET medico == findUnique(db.usuario, medicoId)
    IN  medico = {} \/ The(medico).perfil # "MEDICO"

\* "Verifica se o paciente existe"
pacienteInexistente(db, pacienteId) ==
    findUnique(db.usuario, pacienteId) = {}

\* mutant: the where clause compares the dia column with the timestamp
findFirstSlotCampoErrado(table, medicoId, dataHora) ==
    {row \in table : row.medicoId = medicoId /\ row.dia = dataHora}

\* mutant: the where clause skips canceled rows
findFirstSlotSomenteAtivos(table, medicoId, dataHora) ==
    {row \in table : /\ row.medicoId = medicoId /\ row.dataHora = dataHora
                     /\ row.status # "CANCELADA"}

\* mutant: the where clause looks only at bookings still AGENDADA
findFirstSlotSomenteAgendadas(table, medicoId, dataHora) ==
    {row \in table : /\ row.medicoId = medicoId /\ row.dataHora = dataHora
                     /\ row.status = "AGENDADA"}

\* mutant: the where clause leaves the doctor out
findFirstSlotSemMedico(table, medicoId, dataHora) ==
    {row \in table : row.dataHora = dataHora}

\* prisma.<kind>.findFirst({ where: { medicoId, dataHora } })
findFirstSlot(table, medicoId, dataHora) ==
    {row \in table : row.medicoId = medicoId /\ row.dataHora = dataHora}

\* the data object handed to prisma.<kind>.create
createData(k, body, dataHora) ==
    LET base == [pacienteId |-> body.pacienteId,
                 medicoId   |-> body.medicoId,
                 dia        |-> newDate(body.dia),
                 hora       |-> body.hora,
                 dataHora   |-> dataHora,
                 detalhes   |-> IF has(body, "detalhes") THEN body.detalhes ELSE NULL]
    IN  IF k = "exame" THEN base @@ [nome |-> body.nome] ELSE base

\* prisma.<kind>.create: the row gets a fresh id and the default status
novaLinha(table, data) ==
    data @@ [id |-> Cardinality(table) + 1, status |-> StatusDefault]

\* whether the storage layer enforces one row per (medicoId, dataHora): the
\* handler reads with findFirst, not findUnique, and no constraint is declared
SlotUnico == FALSE

\* mutant: the insert is conditional on the slot being free, as one storage
\* operation, and the conflict is answered SLOT_UNAVAILABLE
prismaCreateSeAusente(k, body, dataHora, db) ==
    IF findFirstSlot(db[k], body.medicoId, dataHora) # {}
    THEN Outcome(Err(409, "SLOT_UNAVAILABLE"), db)
    ELSE LET linha == novaLinha(db[k], createData(k, body, dataHora))
         IN  Outcome(Resp(201, "OK", Incluir(db, linha)),
                     [db EXCEPT ![k] = @ \cup {linha}])

\* await prisma.<kind>.create({ data, include }) and the 201 response; a
\* constraint violation is thrown and answered by the catch block
prismaCreate(k, body, dataHora, db) ==
    IF SlotUnico /\ findFirstSlot(db[k], body.medicoId, dataHora) # {}
    THEN Outcome(Err(500, "INTERNAL_SERVER_ERROR"), db)
    ELSE LET linha == novaLinha(db[k], createData(k, body, dataHora))
         IN  Outcome(Resp(201, "OK", Incluir(db, linha)),
                     [db EXCEPT ![k] = @ \cup {linha}])

\* mutant: the row is created before the slot is looked up, and a collision
\* is answered 409 with the row left in the table
createRunGravaAntes(k, userId, userPerfil, body, db, zone) ==
    IF createCamposFaltando(k, body) THEN Outcome(Err(400, "VALIDATION_ERROR"), db)
    ELSE IF createProibido(userId, userPerfil, body) THEN Outcome(Err(403, "AUTH_FORBIDDEN"), db)
    ELSE IF medicoInvalido(db, body.medicoId) THEN Outcome(Err(400, "VALIDATION_ERROR"), db)
    ELSE IF pacienteInexistente(db, body.pacienteId) THEN Outcome(Err(400, "VALIDATION_ERROR"), db)
    ELSE LET dataHora == combineDataHora(body.dia, body.hora, zone) IN
         IF dataHora = InvalidDate THEN Outcome(Err(500, "INTERNAL_SERVER_ERROR"), db)
         ELSE IF findFirstSlot(db[k], body.medicoId, dataHora) # {}
              THEN Outcome(Err(409, "SLOT_UNAVAILABLE"), prismaCreate(k, body, dataHora, db).db)
         ELSE prismaCreate(k, body, dataHora, db)

\* the whole handler, run without interruption on store db
createRun(k, userId, userPerfil, body, db, zone) ==
    IF createCamposFaltando(k, body) THEN Outcome(Err(400, "VALIDATION_ERROR"), db)
    ELSE IF createProibido(userId, userPerfil, body) THEN Outcome(Err(403, "AUTH_FORBIDDEN"), db)
    ELSE IF medicoInvalido(db, body.medicoId) THEN Outcome(Err(400, "VALIDATION_ERROR"), db)
    ELSE IF pacienteInexistente(db, body.pacienteId) THEN Outcome(Err(400, "VALIDATION_ERROR"), db)
    ELSE LET dataHora == combineDataHora(body.dia, body.hora, zone) IN
         \* the storage client rejects an invalid Date; the catch block answers 500
         IF dataHora = InvalidDate THEN Outcome(Err(500, "INTERNAL_SERVER_ERROR"), db)
         ELSE IF findFirstSlot(db[k], body.medicoId, dataHora) # {}
              THEN Outcome(Err(409, "SLOT_UNAVAILABLE"), db)
         ELSE prismaCreate(k, body, dataHora, db)

\* a request runs only when none is being answered: the response and the
\* store the handler leaves are recorded with the request
Answer(op, userId, userPerfil, id, body, out) ==
    /\ req.op = "none"
    /\ req' = Request(op, userId, userPerfil, id, body)
    /\ res' = out.res
    /\ pre' = prisma
    /\ prisma' = out.db
    /\ UNCHANGED <<tz, inflight>>

createConsulta(userId, userPerfil, body) ==
    LET out == createRun("consulta", userId, userPerfil, body, prisma, tz) IN
    /\ req.op = "none"
    /\ Answer("createConsulta", userId, userPerfil, 0, body, out)

createExame(userId, userPerfil, body) ==
    LET out == createRun("exame", userId, userPerfil, body, prisma, tz) IN
    /\ req.op = "none"
    /\ Answer("createExame", userId, userPerfil, 0, body, out)

\* the response has been sent; the next request may start
Done ==
    /\ req.op # "none"
    /\ req' = NoReq
    /\ res' = NoRes
    /\ pre' = prisma
    /\ UNCHANGED <<prisma, tz, inflight>>

---------------------------------------------------------------------------
(* Booking handlers: list, get, update, cancel *)

\* "Filtro por perfil": the where clause of findMany
\* mutant: the doctor filter is left out of the where clause
whereClauseSemFiltroMedico(userId, userPerfil, row) ==
    IF userPerfil = "PACIENTE" THEN row.pacienteId = userId
    ELSE TRUE

whereClause(userId, userPerfil, row) ==
    IF userPerfil = "PACIENTE" THEN row.pacienteId = userId
    ELSE IF userPerfil = "MEDICO" THEN row.medicoId = userId
    ELSE TRUE

\* every ordering of the rows of S as a sequence
Orderings(S) ==
    {s \in [1..Cardinality(S) -> S] : \A i, j \in 1..Cardinality(S) : i # j => s[i] # s[j]}

\* orderBy: { dataHora: 'asc' }; rows with equal keys come in any order
orderByDataHoraAsc(S) ==
    {s \in Orderings(S) : \A i, j \in 1..Len(s) : i < j => s[i].dataHora <= s[j].dataHora}

\* findMany({ where, include, orderBy }): the possible result lists
listResults(k, userId, userPerfil, db) ==
    LET rows == {row \in db[k] : whereClause(userId, userPerfil, row)}
    IN  {[i \in 1..Len(s) |-> Incluir(db, s[i])] : s \in orderByDataHoraAsc(rows)}

listRun(k, userId, userPerfil, db, lista) ==
    Outcome(Resp(200, "OK", lista), db)

listConsultas(userId, userPerfil) ==
    /\ req.op = "none"
    /\ \E lista \in listResults("consulta", userId, userPerfil, prisma) :
        Answer("listConsultas", userId, userPerfil, 0, NoBody,
               listRun("consulta", userId, userPerfil, prisma, lista))

listExames(userId, userPerfil) ==
    /\ req.op = "none"
    /\ \E lista \in listResults("exame", userId, userPerfil, prisma) :
        Answer("listExames", userId, userPerfil, 0, NoBody,
               listRun("exame", userId, userPerfil, prisma, lista))

\* the permission check of get and update: patient and doctor ownership
acessoProibido(userId, userPerfil, row) ==
    \/ userPerfil = "PACIENTE" /\ row.pacienteId # userId
    \/ userPerfil = "MEDICO" /\ row.medicoId # userId

\* getExame also includes the exam's results (resultados: true)
IncluirGet(k, db, row) ==
    IF k = "exame"
    THEN Incluir(db, row) @@ [resultados |-> {r \in db.resultadoExame : r.exameId = row.id}]
    ELSE Incluir(db, row)

getRun(k, userId, userPerfil, id, db) ==
    LET achado == findUnique(db[k], id) IN
    IF achado = {} THEN Outcome(Err(404, "RESOURCE_NOT_FOUND"), db)
    ELSE IF acessoProibido(userId, userPerfil, The(achado))
         THEN Outcome(Err(403, "AUTH_FORBIDDEN"), db)
    ELSE Outcome(Resp(200, "OK", IncluirGet(k, db, The(achado))), db)

getConsulta(userId, userPerfil, id) ==
    Answer("getConsulta", userId, userPerfil, id, NoBody,
           getRun("consulta", userId, userPerfil, id, prisma))

getExame(userId, userPerfil, id) ==
    Answer("getExame", userId, userPerfil, id, NoBody,
           getRun("exame", userId, userPerfil, id, prisma))

statusValidos == {"AGENDADA", "REALIZADA", "CANCELADA", "NAO_COMPARECEU"}

\* mutant: detalhes is written also when the request does not supply it
aplicarAtualizacaoSempreDetalhes(row, body) ==
    [row EXCEPT !.status   = IF truthyStr(body, "status") THEN body.status ELSE @,
                !.detalhes = IF has(body, "detalhes") THEN body.detalhes ELSE NULL]

\* dadosAtualizacao applied to a row: only the supplied fields are written
aplicarAtualizacao(row, body) ==
    [row EXCEPT !.status   = IF truthyStr(body, "status") THEN body.status ELSE @,
                !.detalhes = IF has(body, "detalhes") THEN body.detalhes ELSE @]

\* mutant: update checks permission as cancel does
updateRunPermissaoDoCancel(k, userId, userPerfil, id, body, db) ==
    LET achado == findUnique(db[k], id) IN
    IF achado = {} THEN Outcome(Err(404, "RESOURCE_NOT_FOUND"), db)
    ELSE IF userPerfil = "PACIENTE" /\ The(achado).pacienteId # userId
         THEN Outcome(Err(403, "AUTH_FORBIDDEN"), db)
    ELSE IF truthyStr(body, "status") /\ body.status \notin statusValidos
         THEN Outcome(Err(400, "VALIDATION_ERROR"), db)
    ELSE LET nova == aplicarAtualizacao(The(achado), body)
         IN  Outcome(Resp(200, "OK", Incluir(db, nova)),
                     [db EXCEPT ![k] = (@ \ achado) \cup {nova}])

updateRun(k, userId, userPerfil, id, body, db) ==
    LET achado == findUnique(db[k], id) IN
    IF achado = {} THEN Outcome(Err(404, "RESOURCE_NOT_FOUND"), db)
    ELSE IF acessoProibido(userId, userPerfil, The(achado))
         THEN Outcome(Err(403, "AUTH_FORBIDDEN"), db)
    ELSE IF truthyStr(body, "status") /\ body.status \notin statusValidos
         THEN Outcome(Err(400, "VALIDATION_ERROR"), db)
    ELSE LET nova == aplicarAtualizacao(The(achado), body)
         IN  Outcome(Resp(200, "OK", Incluir(db, nova)),
                     [db EXCEPT ![k] = (@ \ achado) \cup {nova}])

updateConsulta(userId, userPerfil, id, body) ==
    Answer("updateConsulta", userId, userPerfil, id, body,
           updateRun("consulta", userId, userPerfil, id, body, prisma))

updateExame(userId, userPerfil, id, body) ==
    Answer("updateExame", userId, userPerfil, id, body,
           updateRun("exame", userId, userPerfil, id, body, prisma))

\* mutant: cancel checks permission as get and update do
cancelProibidoComoGet(userId, userPerfil, row) == acessoProibido(userId, userPerfil, row)

\* the permission check of cancel: only a foreign PACIENTE is refused
cancelProibido(userId, userPerfil, row) ==
    userPerfil = "PACIENTE" /\ row.pacienteId # userId

\* mutant: cancel also clears detalhes
cancelarLimpaDetalhes(row) == [row EXCEPT !.status = "CANCELADA", !.detalhes = NULL]

\* "Atualiza o status para CANCELADA ao invés de deletar"
cancelar(row) == [row EXCEPT !.status = "CANCELADA"]

\* mutant: a booking that is already canceled is refused
deleteRunRecusaCancelada(k, userId, userPerfil, id, db) ==
    LET achado == findUnique(db[k], id) IN
    IF achado = {} THEN Outcome(Err(404, "RESOURCE_NOT_FOUND"), db)
    ELSE IF cancelProibido(userId, userPerfil, The(achado))
         THEN Outcome(Err(403, "AUTH_FORBIDDEN"), db)
    ELSE IF The(achado).status = "CANCELADA"
         THEN Outcome(Err(409, "RESOURCE_CONFLICT"), db)
    ELSE LET nova == cancelar(The(achado))
         IN  Outcome(Resp(200, "OK", nova),
                     [db EXCEPT ![k] = (@ \ achado) \cup {nova}])

\* mutant: canceling an exam also removes its results
deleteRunRemoveResultados(k, userId, userPerfil, id, db) ==
    LET achado == findUnique(db[k], id) IN
    IF achado = {} THEN Outcome(Err(404, "RESOURCE_NOT_FOUND"), db)
    ELSE IF cancelProibido(userId, userPerfil, The(achado))
         THEN Outcome(Err(403, "AUTH_FORBIDDEN"), db)
    ELSE LET nova == cancelar(The(achado))
         IN  Outcome(Resp(200, "OK", nova),
                     [db EXCEPT ![k] = (@ \ achado) \cup {nova},
                                !.resultadoExame =
                                    IF k = "exame" THEN {r \in @ : r.exameId # id} ELSE @])

deleteRun(k, userId, userPerfil, id, db) ==
    LET achado == findUnique(db[k], id) IN
    IF achado = {} THEN Outcome(Err(404, "RESOURCE_NOT_FOUND"), db)
    ELSE IF cancelProibido(userId, userPerfil, The(achado))
         THEN Outcome(Err(403, "AUTH_FORBIDDEN"), db)
    ELSE LET nova == cancelar(The(achado))
         IN  Outcome(Resp(200, "OK", nova),
                     [db EXCEPT ![k] = (@ \ achado) \cup {nova}])

deleteConsulta(userId, userPerfil, id) ==
    Answer("deleteConsulta", userId, userPerfil, id, NoBody,
           deleteRun("consulta", userId, userPerfil, id, prisma))

deleteExame(userId, userPerfil, id) ==
    Answer("deleteExame", userId, userPerfil, id, NoBody,
           deleteRun("exame", userId, userPerfil, id, prisma))

---------------------------------------------------------------------------
(* Result handlers: createResultado, listResultados, getResultado *)

resultadoCamposFaltando(body) ==
    \/ ~has(body, "exameId")
    \/ ~truthyStr(body, "pacienteId")
    \/ ~truthyStr(body, "medicoId")

\* mutant: only a PACIENTE is kept from publishing
resultadoProibidoSoPaciente(userPerfil) == userPerfil = "PACIENTE"

\* "Apenas médicos e admins podem criar resultados"
resultadoProibido(userPerfil) == userPerfil \notin {"MEDICO", "ADMIN"}

\* the result row references a patient user and a doctor user: the storage
\* engine rejects a row whose reference has no target
resultadoSemReferencia(db, body) ==
    \/ findUnique(db.usuario, body.pacienteId) = {}
    \/ findUnique(db.usuario, body.medicoId) = {}

\* prisma.resultadoExame.create: fresh id, publicadoEm from the database clock
\* (rows are never removed, so the row count orders the publications)
novoResultado(table, body) ==
    [id          |-> Cardinality(table) + 1,
     exameId     |-> body.exameId,
     pacienteId  |-> body.pacienteId,
     medicoId    |-> body.medicoId,
     detalhes    |-> IF has(body, "detalhes") THEN body.detalhes ELSE NULL,
     arquivoUrl  |-> IF has(body, "arquivoUrl") THEN body.arquivoUrl ELSE NULL,
     publicadoEm |-> Cardinality(table) + 1]

\* select: { id, nome } of the doctor
ResumoMedico(usuarios, id) ==
    LET u == The(findUnique(usuarios, id)) IN [id |-> u.id, nome |-> u.nome]

\* include of create: exame { id, nome }, paciente, medico
IncluirCriado(db, linha) ==
    [registro |-> linha,
     exame    |-> LET e == The(findUnique(db.exame, linha.exameId))
                  IN  [id |-> e.id, nome |-> e.nome],
     paciente |-> Resumo(db.usuario, linha.pacienteId),
     medico   |-> ResumoMedico(db.usuario, linha.medicoId)]

\* include of list and get: exame { id, nome, dia, hora }, paciente, medico
IncluirResultado(db, linha) ==
    [registro |-> linha,
     exame    |-> LET e == The(findUnique(db.exame, linha.exameId))
                  IN  [id |-> e.id, nome |-> e.nome, dia |-> e.dia, hora |-> e.hora],
     paciente |-> Resumo(db.usuario, linha.pacienteId),
     medico   |-> ResumoMedico(db.usuario, linha.medicoId)]

createResultadoRun(userPerfil, body, db) ==
    IF resultadoCamposFaltando(body) THEN Outcome(Err(400, "VALIDATION_ERROR"), db)
    ELSE IF resultadoProibido(userPerfil) THEN Outcome(Err(403, "AUTH_FORBIDDEN"), db)
    ELSE IF findUnique(db.exame, body.exameId) = {}
         THEN Outcome(Err(404, "RESOURCE_NOT_FOUND"), db)
    \* a foreign-key violation is thrown by create; the catch block answers 500
    ELSE IF resultadoSemReferencia(db, body)
         THEN Outcome(Err(500, "INTERNAL_SERVER_ERROR"), db)
    ELSE LET linha == novoResultado(db.resultadoExame, body)
         IN  Outcome(Resp(201, "OK", IncluirCriado(db, linha)),
                     [db EXCEPT !.resultadoExame = @ \cup {linha}])

createResultado(userId, userPerfil, body) ==
    LET out == createResultadoRun(userPerfil, body, prisma) IN
    /\ req.op = "none"
    /\ Answer("createResultado", userId, userPerfil, 0, body, out)

\* "Filtro por perfil" of listResultados
whereClauseResultado(userId, userPerfil, row) ==
    IF userPerfil = "PACIENTE" THEN row.pacienteId = userId
    ELSE IF userPerfil = "MEDICO" THEN row.medicoId = userId
    ELSE TRUE

\* orderBy: { publicadoEm: 'desc' }
orderByPublicadoEmDesc(S) ==
    {s \in Orderings(S) : \A i, j \in 1..Len(s) : i < j => s[i].publicadoEm >= s[j].publicadoEm}

listResultadosResults(userId, userPerfil, db) ==
    LET rows == {row \in db.resultadoExame : whereClauseResultado(userId, userPerfil, row)}
    IN  {[i \in 1..Len(s) |-> IncluirResultado(db, s[i])] : s \in orderByPublicadoEmDesc(rows)}

listResultados(userId, userPerfil) ==
    /\ req.op = "none"
    /\ \E lista \in listResultadosResults(userId, userPerfil, prisma) :
        Answer("listResultados", userId, userPerfil, 0, NoBody,
               Outcome(Resp(200, "OK", lista), prisma))

\* mutant: only the patient check is made
resultadoAcessoSoPaciente(userId, userPerfil, row) ==
    userPerfil = "PACIENTE" /\ row.pacienteId # userId

\* the permission check of getResultado
resultadoAcessoProibido(userId, userPerfil, row) ==
    \/ userPerfil = "PACIENTE" /\ row.pacienteId # userId
    \/ userPerfil = "MEDICO" /\ row.medicoId # userId

getResultadoRun(userId, userPerfil, id, db) ==
    LET achado == findUnique(db.resultadoExame, id) IN
    IF achado = {} THEN Outcome(Err(404, "RESOURCE_NOT_FOUND"), db)
    ELSE IF resultadoAcessoProibido(userId, userPerfil, The(achado))
         THEN Outcome(Err(403, "AUTH_FORBIDDEN"), db)
    ELSE Outcome(Resp(200, "OK", IncluirResultado(db, The(achado))), db)

getResultado(userId, userPerfil, id) ==
    Answer("getResultado", userId, userPerfil, id, NoBody,
           getResultadoRun(userId, userPerfil, id, prisma))

---------------------------------------------------------------------------
(* Requests the clients send *)

\* the identity and role the gate attaches: users hold tokens issued for
\* their own id and perfil
Callers == {<<u.id, u.perfil>> : u \in Usuarios0}

Admin == <<"adm", "ADMIN">>

\* BodyBase without field f
Sem(body, f) == [g \in DOMAIN body \ {f} |-> body[g]]

BodyBase == [pacienteId |-> "p1", medicoId |-> "m1", dia |-> 1, hora |-> H1000]

\* well-formed create bodies: either patient with either doctor at 10:00 or
\* 10:30 of day 1, and one booking at 10:00 of day 2
BodiesValidos ==
    { [pacienteId |-> p, medicoId |-> m, dia |-> 1, hora |-> h] :
        p \in {"p1", "p2"}, m \in {"m1", "m2"}, h \in {H1000, H1030} }
      \cup { [BodyBase EXCEPT !.dia = 2] }

\* bodies that fail one check each: a missing field, a medicoId that is no
\* doctor or no user, a pacienteId that is no user, a malformed hora
BodiesInvalidos ==
    { Sem(BodyBase, f) : f \in DOMAIN BodyBase }
      \cup { [BodyBase EXCEPT !.medicoId = "p2"],
             [BodyBase EXCEPT !.medicoId = GhostId],
             [BodyBase EXCEPT !.pacienteId = GhostId],
             [BodyBase EXCEPT !.hora = <<"x">>] }

\* bodies patient p2 sends that fail a check: for patient p1 without hora,
\* for patient p1 with an unknown doctor, for themselves with an unknown
\* doctor
BodiesDePaciente ==
    { Sem(BodyBase, "hora"),
      [BodyBase EXCEPT !.medicoId = GhostId],
      [BodyBase EXCEPT !.pacienteId = "p2", !.medicoId = GhostId] }

\* create requests <<caller, body>>: every caller with every well-formed
\* body, the administrator with every ill-formed one, patient p2 with three
\* more ill-formed ones
ConsultaRequests ==
    (Callers \X BodiesValidos) \cup ({Admin} \X BodiesInvalidos)
      \cup ({<<"p2", "PACIENTE">>} \X BodiesDePaciente)

\* exam bodies carry a nome as well; one body lacks it
ComNome(body) == body @@ [nome |-> "Hemograma"]

ExameRequests ==
    { <<cb[1], ComNome(cb[2])>> : cb \in ConsultaRequests } \cup { <<Admin, BodyBase>> }

\* ids a request may name: every id in use and the next, unused one
BookingIds == 1..(MaxBookings + 1)

\* update bodies: back to AGENDADA, or a status outside the enumeration
UpdateBodies == { [status |-> "AGENDADA"], [status |-> "PENDENTE"] }

---------------------------------------------------------------------------
(* Sequential booking specification: create, update and cancel requests,  *)
(* each answered before the next starts                                   *)

PrismaVazio(usuarios) ==
    [usuario |-> usuarios, consulta |-> {}, exame |-> {}, resultadoExame |-> {},
     pushToken |-> {}, pushTokenSeq |-> 0, usuarioSeq |-> 0]

Init ==
    /\ prisma = PrismaVazio(Usuarios0)
    /\ tz \in TzOffsets
    /\ req = NoReq
    /\ res = NoRes
    /\ pre = prisma
    /\ inflight = <<>>

Next ==
    \/ \E cb \in ConsultaRequests :
          /\ req.op = "none"
          /\ Cabe(createRun("consulta", cb[1][1], cb[1][2], cb[2], prisma, tz), prisma, MaxBookings)
          /\ createConsulta(cb[1][1], cb[1][2], cb[2])
    \/ \E cb \in ExameRequests :
          /\ req.op = "none"
          /\ Cabe(createRun("exame", cb[1][1], cb[1][2], cb[2], prisma, tz), prisma, MaxBookings)
          /\ createExame(cb[1][1], cb[1][2], cb[2])
    \/ \E c \in Callers, id \in BookingIds, b \in UpdateBodies : updateConsulta(c[1], c[2], id, b)
    \/ \E c \in Callers, id \in BookingIds, b \in UpdateBodies : updateExame(c[1], c[2], id, b)
    \/ \E c \in Callers, id \in BookingIds : deleteConsulta(c[1], c[2], id)
    \/ \E c \in Callers, id \in BookingIds : deleteExame(c[1], c[2], id)
    \/ Done

Spec == Init /\ [][Next]_vars

---------------------------------------------------------------------------
(* Properties of the sequential booking specification *)

CreateOp(k) == IF k = "consulta" THEN "createConsulta" ELSE "createExame"
UpdateOp(k) == IF k = "consulta" THEN "updateConsulta" ELSE "updateExame"
DeleteOp(k) == IF k = "consulta" THEN "deleteConsulta" ELSE "deleteExame"

\* the request being answered passes every check that comes before the
\* collision check, on the store it arrived at
PedidoValido(k) ==
    /\ ~createCamposFaltando(k, req.body)
    /\ ~(req.userPerfil = "PACIENTE" /\ req.body.pacienteId # req.userId)
    /\ \E u \in pre.usuario : u.id = req.body.medicoId /\ u.perfil = "MEDICO"
    /\ \E u \in pre.usuario : u.id = req.body.pacienteId
    /\ combineDataHora(req.body.dia, req.body.hora, tz) # InvalidDate

\* rows of table k of store db for the doctor and combined timestamp the
\* request names
LinhasDoSlot(k, db) ==
    {row \in db[k] : /\ row.medicoId = req.body.medicoId
                     /\ row.dataHora = combineDataHora(req.body.dia, req.body.hora, tz)}

\* C1: when a non-canceled booking exists for (medicoId, dataHora), a later,
\* otherwise valid create request for the same doctor and combined timestamp
\* is answered 409 SLOT_UNAVAILABLE and the store still holds exactly one
\* row for that pair.
C1_SegundoCreateRecusado ==
    \A k \in Kinds :
        (/\ req.op = CreateOp(k)
         /\ PedidoValido(k)
         /\ \E row \in LinhasDoSlot(k, pre) : row.status # "CANCELADA")
        => /\ res.status = 409
           /\ res.code = "SLOT_UNAVAILABLE"
           /\ Cardinality(LinhasDoSlot(k, prisma)) = 1

\* C1 witness: patient p2 asks for a slot that a non-canceled booking of
\* another patient holds, and is refused
C1_Witness ==
    /\ req.op \in {"createConsulta", "createExame"}
    /\ req.userId = "p2"
    /\ res.status = 409
    /\ \E k \in Kinds :
          /\ req.op = CreateOp(k)
          /\ \E row \in LinhasDoSlot(k, pre) : row.status # "CANCELADA" /\ row.pacienteId = "p1"

\* two different rows of one table that are both not canceled and share
\* doctor and combined timestamp
SlotDuplicado(db) ==
    \E k \in Kinds : \E r1, r2 \in db[k] :
        /\ r1.id # r2.id
        /\ r1.status # "CANCELADA" /\ r2.status # "CANCELADA"
        /\ r1.medicoId = r2.medicoId /\ r1.dataHora = r2.dataHora

\* C2: under requests that run one after another, no two non-canceled
\* appointments (and no two non-canceled exams) share doctor and combined
\* timestamp, also after an update brought a canceled booking back.
C2_UmPorSlot == ~SlotDuplicado(prisma)

\* C2 witness: an update has just set a canceled booking back to AGENDADA
\* while the table holds a second booking
C2_Witness ==
    \E k \in Kinds :
        /\ req.op = UpdateOp(k)
        /\ res.status = 200
        /\ Cardinality(prisma[k]) = 2
        /\ \E row \in pre[k] : row.id = req.id /\ row.status = "CANCELADA"
        /\ \E row \in prisma[k] : row.id = req.id /\ row.status = "AGENDADA"

\* C7: cancel is idempotent.  After a DELETE answered 200 the row is
\* CANCELADA, and the same DELETE by the same caller is again answered 200
\* with the same body and leaves the store as it is.
C7_CancelIdempotente ==
    \A k \in Kinds :
        (req.op = DeleteOp(k) /\ res.status = 200)
        => LET denovo == deleteRun(k, req.userId, req.userPerfil, req.id, prisma)
           IN  /\ \A row \in prisma[k] : row.id = req.id => row.status = "CANCELADA"
               /\ denovo.res.status = 200
               /\ denovo.res.body = res.body
               /\ denovo.db = prisma
               /\ (\E row \in pre[k] : row.id = req.id /\ row.status = "CANCELADA")
                     => prisma = pre

\* C7 witness: a DELETE of a booking that was already canceled was answered
\* 200 and changed nothing
C7_Witness ==
    \E k \in Kinds :
        /\ req.op = DeleteOp(k)
        /\ res.status = 200
        /\ \E row \in pre[k] : row.id = req.id /\ row.status = "CANCELADA"
        /\ prisma = pre

\* C9: a valid create request is refused with SLOT_UNAVAILABLE exactly when
\* a row of the same doctor and combined timestamp exists; otherwise it is
\* answered 201 and one row with the submitted fields is added.  A row of
\* another doctor, or at another time, never causes the refusal.
C9_SoColisaoExata ==
    \A k \in Kinds :
        (req.op = CreateOp(k))
        => /\ res.code = "SLOT_UNAVAILABLE"
                <=> (PedidoValido(k) /\ LinhasDoSlot(k, pre) # {})
           /\ (PedidoValido(k) /\ LinhasDoSlot(k, pre) = {})
                => /\ res.status = 201
                   /\ pre[k] \subseteq prisma[k]
                   /\ Cardinality(prisma[k]) = Cardinality(pre[k]) + 1
                   /\ \E row \in LinhasDoSlot(k, prisma) :
                         /\ row.pacienteId = req.body.pacienteId
                         /\ row.hora = req.body.hora

\* C9 witness: patient p1 holds doctor m1 at 10:00 of day 1; patient p2 books
\* the same doctor at 10:30 of the same day and gets 201
C9_Witness ==
    \E k \in Kinds :
        /\ req.op = CreateOp(k)
        /\ req.userId = "p2" /\ req.body.pacienteId = "p2"
        /\ req.body.medicoId = "m1" /\ req.body.dia = 1 /\ req.body.hora = H1030
        /\ \E row \in pre[k] : /\ row.pacienteId = "p1" /\ row.medicoId = "m1"
                               /\ row.hora = H1000 /\ row.dia = newDate(1)
        /\ res.status = 201
        /\ Cardinality(prisma[k]) = 2

---------------------------------------------------------------------------
(* Read specification: records are created, then listed and fetched by id *)

\* most rows the read specification creates
MaxRegistros == 3

\* <<pacienteId, medicoId>> of the created records
ParesRead == {<<"p1", "m1">>, <<"p2", "m1">>, <<"p1", "m2">>}

\* <<dia, hora>> of the created bookings
HorariosRead == {<<1, H1000>>, <<1, H2330>>, <<2, H0000>>}

ReadBodies ==
    { [pacienteId |-> pm[1], medicoId |-> pm[2], dia |-> t[1], hora |-> t[2]] :
        pm \in ParesRead, t \in HorariosRead }

ResultadoBase == [exameId |-> 1, pacienteId |-> "p1", medicoId |-> "m1"]

\* result requests <<caller, body>>: the administrator publishes for either
\* exam and any pair, sends a body without exameId and one whose patient is
\* no user; a patient tries to publish
ResultadoRequests ==
    ({Admin} \X ({ [exameId |-> e, pacienteId |-> pm[1], medicoId |-> pm[2]] :
                     e \in 1..2, pm \in ParesRead }
                 \cup { Sem(ResultadoBase, "exameId"),
                        [ResultadoBase EXCEPT !.pacienteId = GhostId] }))
      \cup { <<<<"p1", "PACIENTE">>, ResultadoBase>> }

\* the callers that read: a patient, a doctor, the administrator, the attendant
Leitores == {<<"p1", "PACIENTE">>, <<"m1", "MEDICO">>, Admin, <<"ate", "ATENDENTE">>}

RegistroIds == 1..MaxRegistros

NextRead ==
    \/ \E b \in ReadBodies :
          /\ req.op = "none"
          /\ Cabe(createRun("consulta", Admin[1], Admin[2], b, prisma, tz), prisma, MaxRegistros)
          /\ createConsulta(Admin[1], Admin[2], b)
    \/ \E b \in ReadBodies :
          /\ req.op = "none"
          /\ Cabe(createRun("exame", Admin[1], Admin[2], ComNome(b), prisma, tz), prisma, MaxRegistros)
          /\ createExame(Admin[1], Admin[2], ComNome(b))
    \/ \E cb \in ResultadoRequests :
          /\ req.op = "none"
          /\ Cabe(createResultadoRun(cb[1][2], cb[2], prisma), prisma, MaxRegistros)
          /\ createResultado(cb[1][1], cb[1][2], cb[2])
    \/ \E c \in Leitores : listConsultas(c[1], c[2])
    \/ \E c \in Leitores : listExames(c[1], c[2])
    \/ \E c \in Leitores : listResultados(c[1], c[2])
    \/ \E c \in Leitores, id \in RegistroIds : getConsulta(c[1], c[2], id)
    \/ \E c \in Leitores, id \in RegistroIds : getExame(c[1], c[2], id)
    \/ \E c \in Leitores, id \in RegistroIds : getResultado(c[1], c[2], id)
    \/ Done

SpecRead == Init /\ [][NextRead]_vars

---------------------------------------------------------------------------
(* Properties of the read specification *)

ListOp(k) == IF k = "consulta" THEN "listConsultas" ELSE "listExames"
GetOp(k) == IF k = "consulta" THEN "getConsulta" ELSE "getExame"

\* the visibility rule: a patient's own records, a doctor's own records,
\* every record for the other roles
Visivel(userId, userPerfil, row) ==
    CASE userPerfil = "PACIENTE" -> row.pacienteId = userId
      [] userPerfil = "MEDICO"   -> row.medicoId = userId
      [] OTHER                   -> TRUE

\* the answered list holds exactly the rows of table visible to the caller
ListaExata(table) ==
    LET regs == {res.body[i].registro : i \in DOMAIN res.body} IN
    /\ res.status = 200
    /\ regs = {row \in table : Visivel(req.userId, req.userPerfil, row)}
    /\ Len(res.body) = Cardinality(regs)
    /\ prisma = pre

\* C4: every list operation returns exactly the records visible to the
\* caller (patient: own pacienteId; doctor: own medicoId; administrator and
\* attendant: all), and bookings come in ascending dataHora order.
C4_ListaVisiveis ==
    /\ \A k \in Kinds :
         req.op = ListOp(k)
         => /\ ListaExata(pre[k])
            /\ \A i, j \in DOMAIN res.body :
                 i < j => res.body[i].registro.dataHora <= res.body[j].registro.dataHora
    /\ req.op = "listResultados" => ListaExata(pre.resultadoExame)

\* C4 witness: a doctor lists a table of three rows, one of them of another
\* doctor, and receives the two own rows, the later-created one first
C4_Witness ==
    \E k \in Kinds :
        /\ req.op = ListOp(k)
        /\ req.userPerfil = "MEDICO"
        /\ Cardinality(pre[k]) = 3
        /\ Len(res.body) = 2
        /\ res.body[1].registro.id > res.body[2].registro.id
        /\ res.body[1].registro.dataHora < res.body[2].registro.dataHora

\* the table a get operation reads
TabelaDoGet(op) ==
    CASE op = "getConsulta"  -> pre.consulta
      [] op = "getExame"     -> pre.exame
      [] op = "getResultado" -> pre.resultadoExame

\* C5: get-by-id answers 404 RESOURCE_NOT_FOUND when no record has the id,
\* else 403 AUTH_FORBIDDEN to a patient or doctor who is not the record's
\* own, and returns the record only in the remaining cases.
C5_GetPorId ==
    req.op \in {"getConsulta", "getExame", "getResultado"}
    => LET achado == {row \in TabelaDoGet(req.op) : row.id = req.id} IN
       /\ prisma = pre
       /\ IF achado = {}
          THEN res.status = 404 /\ res.code = "RESOURCE_NOT_FOUND"
          ELSE LET row == The(achado) IN
               IF \/ req.userPerfil = "PACIENTE" /\ row.pacienteId # req.userId
                  \/ req.userPerfil = "MEDICO" /\ row.medicoId # req.userId
               THEN res.status = 403 /\ res.code = "AUTH_FORBIDDEN"
               ELSE res.status = 200 /\ res.body.registro = row

\* C5 witness: a doctor asked for a result published for another doctor and
\* was answered 403
C5_Witness ==
    /\ req.op = "getResultado"
    /\ req.userPerfil = "MEDICO"
    /\ \E row \in pre.resultadoExame : row.id = req.id /\ row.medicoId # req.userId
    /\ res.status = 403

\* the instant that is hour h, minute m of calendar day dia on a clock that
\* runs zone minutes east of UTC
NoCalendario(dia, h, m, zone) ==
    dia * MsPerDay + h * MsPerHour + m * MsPerMinute - zone * MsPerMinute

\* C6: a booking fetched by id after its creation carries as dataHora the
\* calendar date of its dia at hour HH, minute MM of its hora (seconds and
\* milliseconds zero), read either on the server's clock or on the UTC clock.
C6_DataHoraRoundTrip ==
    \A k \in Kinds :
        (req.op = GetOp(k) /\ res.status = 200)
        => LET row == res.body.registro
               dia == row.dia \div MsPerDay
               partes == split(row.hora, ":")
               hh == parseInt(partes[1])
               mm == parseInt(partes[2])
           IN  \/ row.dataHora = NoCalendario(dia, hh, mm, tz)
               \/ row.dataHora = NoCalendario(dia, hh, mm, 0)

\* C6, the part that holds: the fetched record carries the dia and hora that
\* were stored at creation, and its dataHora is what setHours computed then
C6_Fetched ==
    \A k \in Kinds :
        (req.op = GetOp(k) /\ res.status = 200)
        => /\ res.body.registro \in pre[k]
           /\ res.body.registro.dataHora
                = combineDataHora(res.body.registro.dia \div MsPerDay, res.body.registro.hora, tz)

---------------------------------------------------------------------------
(* Concurrent create requests: each request is a frame that advances from *)
(* one await to the next; frames of different requests interleave         *)

\* most create requests in flight together
MaxInFlight == 2

FrameLivre ==
    [pc |-> "idle", k |-> NULL, userId |-> NULL, userPerfil |-> NULL,
     body |-> NoBody, dataHora |-> InvalidDate, slotLivre |-> FALSE, res |-> NoRes]

\* the handler returned a response
Responder(f, r) == [f EXCEPT !.pc = "done", !.res = r]

Avancar(i, f) ==
    /\ inflight' = [inflight EXCEPT ![i] = f]
    /\ UNCHANGED <<tz, req, res, pre>>

\* the request arrives: field validation and the patient's own-id check run
\* up to the first await
receberCreate(i, k, userId, userPerfil, body) ==
    LET f == [pc |-> "medico", k |-> k, userId |-> userId, userPerfil |-> userPerfil,
              body |-> body, dataHora |-> InvalidDate, slotLivre |-> FALSE, res |-> NoRes] IN
    /\ inflight[i].pc = "idle"
    /\ Avancar(i, IF createCamposFaltando(k, body)
                  THEN Responder(f, Err(400, "VALIDATION_ERROR"))
                  ELSE IF createProibido(userId, userPerfil, body)
                       THEN Responder(f, Err(403, "AUTH_FORBIDDEN"))
                  ELSE f)
    /\ UNCHANGED prisma

\* await prisma.usuario.findUnique({ where: { id: medicoId } })
awaitMedico(i) ==
    LET f == inflight[i] IN
    /\ f.pc = "medico"
    /\ Avancar(i, IF medicoInvalido(prisma, f.body.medicoId)
                  THEN Responder(f, Err(400, "VALIDATION_ERROR"))
                  ELSE [f EXCEPT !.pc = "paciente"])
    /\ UNCHANGED prisma

\* await prisma.usuario.findUnique({ where: { id: pacienteId } }), then the
\* combination of dia and hora
awaitPaciente(i) ==
    LET f == inflight[i] IN
    /\ f.pc = "paciente"
    /\ Avancar(i, IF pacienteInexistente(prisma, f.body.pacienteId)
                  THEN Responder(f, Err(400, "VALIDATION_ERROR"))
                  ELSE [f EXCEPT !.pc = "findFirst",
                                 !.dataHora = combineDataHora(f.body.dia, f.body.hora, tz)])
    /\ UNCHANGED prisma

\* await prisma.<kind>.findFirst({ where: { medicoId, dataHora } }); slotLivre
\* records that the result was null
awaitFindFirst(i) ==
    LET f == inflight[i] IN
    /\ f.pc = "findFirst"
    /\ Avancar(i, IF f.dataHora = InvalidDate
                  THEN Responder(f, Err(500, "INTERNAL_SERVER_ERROR"))
                  ELSE IF findFirstSlot(prisma[f.k], f.body.medicoId, f.dataHora) # {}
                       THEN Responder(f, Err(409, "SLOT_UNAVAILABLE"))
                  ELSE [f EXCEPT !.pc = "create", !.slotLivre = TRUE])
    /\ UNCHANGED prisma

\* await prisma.<kind>.create({ data, include }) and the response
awaitCreate(i) ==
    LET f == inflight[i]
        out == prismaCreate(f.k, f.body, f.dataHora, prisma) IN
    /\ f.pc = "create"
    /\ prisma' = out.db
    /\ Avancar(i, Responder(f, out.res))

\* bodies of the concurrent requests: one patient, either doctor, 10:00 or
\* 10:30 of day 1, and three bodies that fail a check
RaceBodies ==
    { [BodyBase EXCEPT !.medicoId = m, !.hora = h] : m \in {"m1", "m2"}, h \in {H1000, H1030} }
      \cup { Sem(BodyBase, "hora"),
             [BodyBase EXCEPT !.medicoId = GhostId],
             [BodyBase EXCEPT !.pacienteId = GhostId],
             [BodyBase EXCEPT !.hora = <<"x">>] }

\* <<caller, body>>: the administrator with every body, and a patient who
\* books for another patient
RaceRequests ==
    ({Admin} \X RaceBodies) \cup { <<<<"p2", "PACIENTE">>, BodyBase>> }

InitRace ==
    /\ prisma = PrismaVazio(Usuarios0)
    /\ tz \in TzOffsets
    /\ req = NoReq
    /\ res = NoRes
    /\ pre = prisma
    /\ inflight = [i \in 1..MaxInFlight |-> FrameLivre]

NextRace ==
    \E i \in 1..MaxInFlight :
        \/ \E cb \in RaceRequests : receberCreate(i, "consulta", cb[1][1], cb[1][2], cb[2])
        \/ \E cb \in RaceRequests : receberCreate(i, "exame", cb[1][1], cb[1][2], ComNome(cb[2]))
        \/ awaitMedico(i)
        \/ awaitPaciente(i)
        \/ awaitFindFirst(i)
        \/ awaitCreate(i)

SpecRace == InitRace /\ [][NextRace]_vars

---------------------------------------------------------------------------
(* Properties of the concurrent specification *)

\* frames i and j ask for the same doctor and timestamp of the same table
\* and both passed the existence check
AmbosPassaram(i, j) ==
    /\ i # j
    /\ inflight[i].slotLivre
    /\ inflight[j].slotLivre
    /\ inflight[i].k = inflight[j].k
    /\ inflight[i].body.medicoId = inflight[j].body.medicoId
    /\ inflight[i].dataHora = inflight[j].dataHora

\* C3: when two create requests for the same medicoId and dataHora both ran
\* their findFirst check before either create, both insert and both are
\* answered 201, and the table then holds two rows for that pair.
C3_AmbosInserem ==
    \A i, j \in 1..MaxInFlight :
        AmbosPassaram(i, j)
        => /\ inflight[i].pc = "done" => inflight[i].res.status = 201
           /\ (inflight[i].pc = "done" /\ inflight[j].pc = "done")
                => Cardinality(findFirstSlot(prisma[inflight[i].k],
                                             inflight[i].body.medicoId,
                                             inflight[i].dataHora)) >= 2

\* C3 witness: two requests for the same doctor and timestamp were both
\* answered 201 and the table holds two rows for the pair
C3_Witness ==
    \E i, j \in 1..MaxInFlight :
        /\ AmbosPassaram(i, j)
        /\ inflight[i].res.status = 201
        /\ inflight[j].res.status = 201
        /\ Cardinality(findFirstSlot(prisma[inflight[i].k],
                                     inflight[i].body.medicoId,
                                     inflight[i].dataHora)) = 2

---------------------------------------------------------------------------
(* Push tokens: registerPushToken, deletePushToken *)

plataformasValidas == {"ios", "android", "web"}

pushCamposFaltando(body) ==
    ~truthyStr(body, "token") \/ ~truthyStr(body, "plataforma")

\* prisma.pushToken.findUnique({ where: { token } })
findUniqueToken(table, token) == {row \in table : row.token = token}

\* the flag a push token row gets when create supplies none
AtivoDefault == TRUE

\* mutant: the update leaves the owner as it is
pushTokenUpdateSemDono(row, userId, plataforma) ==
    [row EXCEPT !.plataforma = plataforma, !.ativo = TRUE]

\* prisma.pushToken.update({ where: { token }, data: { usuarioId, plataforma, ativo: true } })
pushTokenUpdate(row, userId, plataforma) ==
    [row EXCEPT !.usuarioId = userId, !.plataforma = plataforma, !.ativo = TRUE]

\* prisma.pushToken.create({ data: { usuarioId, token, plataforma } }): the
\* row gets an id never given before
pushTokenCreate(db, userId, body) ==
    [id |-> db.pushTokenSeq + 1, usuarioId |-> userId, token |-> body.token,
     plataforma |-> body.plataforma, ativo |-> AtivoDefault]

registerPushTokenRun(userId, body, db) ==
    IF pushCamposFaltando(body) THEN Outcome(Err(400, "VALIDATION_ERROR"), db)
    ELSE IF body.plataforma \notin plataformasValidas
         THEN Outcome(Err(400, "VALIDATION_ERROR"), db)
    ELSE LET tokenExistente == findUniqueToken(db.pushToken, body.token) IN
         IF tokenExistente # {}
         THEN LET nova == pushTokenUpdate(The(tokenExistente), userId, body.plataforma)
              IN  Outcome(Resp(200, "OK", nova),
                          [db EXCEPT !.pushToken = (@ \ tokenExistente) \cup {nova}])
         ELSE LET nova == pushTokenCreate(db, userId, body)
              IN  Outcome(Resp(201, "OK", nova),
                          [db EXCEPT !.pushToken = @ \cup {nova},
                                     !.pushTokenSeq = @ + 1])

registerPushToken(userId, userPerfil, body) ==
    LET out == registerPushTokenRun(userId, body, prisma) IN
    /\ req.op = "none"
    /\ out.res.status = 201 => prisma.pushTokenSeq < MaxPushTokens
    /\ Answer("registerPushToken", userId, userPerfil, 0, body, out)

\* mutant: the owner check is left out
deletePushTokenRunSemDono(userId, id, db) ==
    LET pushToken == findUnique(db.pushToken, id) IN
    IF pushToken = {} THEN Outcome(Err(404, "RESOURCE_NOT_FOUND"), db)
    ELSE Outcome(Resp(200, "OK", NULL), [db EXCEPT !.pushToken = @ \ pushToken])

deletePushTokenRun(userId, id, db) ==
    LET pushToken == findUnique(db.pushToken, id) IN
    IF pushToken = {} THEN Outcome(Err(404, "RESOURCE_NOT_FOUND"), db)
    ELSE IF The(pushToken).usuarioId # userId THEN Outcome(Err(403, "AUTH_FORBIDDEN"), db)
    ELSE Outcome(Resp(200, "OK", NULL), [db EXCEPT !.pushToken = @ \ pushToken])

deletePushToken(userId, userPerfil, id) ==
    Answer("deletePushToken", userId, userPerfil, id, NoBody,
           deletePushTokenRun(userId, id, prisma))

\* the device tokens and the bodies sent: every token on every platform, a
\* platform outside the list, and bodies lacking a field
Tokens == {"ExponentPushToken[aaa]", "ExponentPushToken[bbb]"}

PushBodies ==
    { [token |-> t, plataforma |-> pl] : t \in Tokens, pl \in plataformasValidas }
      \cup { [token |-> "ExponentPushToken[aaa]", plataforma |-> "windows"],
             [token |-> "ExponentPushToken[aaa]"],
             [token |-> "", plataforma |-> "ios"] }

\* the users that register devices
PushCallers == {<<"p1", "PACIENTE">>, <<"p2", "PACIENTE">>, <<"m1", "MEDICO">>}

PushTokenIds == 1..(MaxPushTokens + 1)

NextPush ==
    \/ \E c \in PushCallers, b \in PushBodies : registerPushToken(c[1], c[2], b)
    \/ \E c \in PushCallers \cup {Admin}, id \in PushTokenIds : deletePushToken(c[1], c[2], id)
    \/ Done

SpecPush == Init /\ [][NextPush]_vars

---------------------------------------------------------------------------
(* Properties of the push token specification *)

\* the request re-registers a token that a row of another user holds
ReRegistro(row) ==
    /\ req.op = "registerPushToken"
    /\ ~pushCamposFaltando(req.body)
    /\ req.body.plataforma \in plataformasValidas
    /\ row \in pre.pushToken
    /\ row.token = req.body.token
    /\ row.usuarioId # req.userId

\* C8: when user B registers a token value already stored for user A no row
\* is created: the existing row gets usuarioId B, the submitted plataforma
\* and ativo true; afterwards deletePushToken by A on that row is answered
\* 403 AUTH_FORBIDDEN and leaves the row, and deletePushToken by B removes it.
C8_ReatribuiDono ==
    \A row \in pre.pushToken :
        ReRegistro(row)
        => LET nova == [row EXCEPT !.usuarioId = req.userId,
                                   !.plataforma = req.body.plataforma,
                                   !.ativo = TRUE]
               porA == deletePushTokenRun(row.usuarioId, row.id, prisma)
               porB == deletePushTokenRun(req.userId, row.id, prisma)
           IN  /\ res.status = 200
               /\ prisma.pushToken = (pre.pushToken \ {row}) \cup {nova}
               /\ Cardinality(prisma.pushToken) = Cardinality(pre.pushToken)
               /\ porA.res.status = 403 /\ porA.res.code = "AUTH_FORBIDDEN"
               /\ porA.db = prisma
               /\ porB.res.status = 200
               /\ porB.db.pushToken = prisma.pushToken \ {nova}

\* C8, the deletes as they are answered: 404 for an unknown id, 403 and no
\* change for a caller who is not the owner, removal for the owner
C8_DeleteSoDono ==
    req.op = "deletePushToken"
    => LET achado == {row \in pre.pushToken : row.id = req.id} IN
       IF achado = {} THEN res.status = 404 /\ prisma = pre
       ELSE IF The(achado).usuarioId # req.userId
            THEN res.status = 403 /\ res.code = "AUTH_FORBIDDEN" /\ prisma = pre
       ELSE res.status = 200 /\ prisma.pushToken = pre.pushToken \ achado

\* C8 witness: a user registered, for another platform, a token that a row
\* of another user held, and was answered 200
C8_Witness ==
    \E row \in pre.pushToken :
        /\ ReRegistro(row)
        /\ row.plataforma # req.body.plataforma
        /\ res.status = 200
        /\ \E r \in prisma.pushToken : r.id = row.id /\ r.usuarioId = req.userId

---------------------------------------------------------------------------
(* Users: register, createUser, updateUser *)

\* prisma.usuario.findUnique({ where: { email } })
\* mutant: the lookup by email finds nothing
findUniqueEmailNenhum(table, email) == {}

findUniqueEmail(table, email) == {u \in table : u.email = email}

\* the flag a user row gets when create supplies none
UsuarioAtivoDefault == TRUE

\* prisma.usuario.create({ data: { nome, email, senhaHash, perfil } }): the
\* row gets an id never given before
usuarioCreate(db, body, perfil) ==
    [id |-> "u" \o ToString(db.usuarioSeq + 1), nome |-> body.nome, email |-> body.email,
     senhaHash |-> bcryptHash(body.senha), perfil |-> perfil, ativo |-> UsuarioAtivoDefault]

\* select: { id, nome, email, perfil, ativo }
Selecionar(u) ==
    [id |-> u.id, nome |-> u.nome, email |-> u.email, perfil |-> u.perfil, ativo |-> u.ativo]

Criado(db, u) ==
    Outcome(Resp(201, "OK", Selecionar(u)),
            [db EXCEPT !.usuario = @ \cup {u}, !.usuarioSeq = @ + 1])

registerRun(body, db) ==
    IF ~truthyStr(body, "nome") \/ ~truthyStr(body, "email") \/ ~truthySeq(body, "senha")
    THEN Outcome(Err(400, "VALIDATION_ERROR"), db)
    ELSE IF Len(body.senha) < 8 THEN Outcome(Err(400, "VALIDATION_ERROR"), db)
    ELSE IF findUniqueEmail(db.usuario, body.email) # {}
         THEN Outcome(Err(409, "RESOURCE_CONFLICT"), db)
    ELSE Criado(db, usuarioCreate(db, body, "PACIENTE"))

register(body) ==
    LET out == registerRun(body, prisma) IN
    /\ req.op = "none"
    /\ out.res.status = 201 => prisma.usuarioSeq < MaxUsuarios
    /\ Answer("register", NULL, NULL, 0, body, out)

createUserRun(body, db) ==
    IF \/ ~truthyStr(body, "nome") \/ ~truthyStr(body, "email")
       \/ ~truthySeq(body, "senha") \/ ~truthyStr(body, "perfil")
    THEN Outcome(Err(400, "VALIDATION_ERROR"), db)
    ELSE IF Len(body.senha) < 8 THEN Outcome(Err(400, "VALIDATION_ERROR"), db)
    ELSE IF body.perfil \notin Perfis THEN Outcome(Err(400, "VALIDATION_ERROR"), db)
    ELSE IF findUniqueEmail(db.usuario, body.email) # {}
         THEN Outcome(Err(409, "RESOURCE_CONFLICT"), db)
    ELSE Criado(db, usuarioCreate(db, body, body.perfil))

createUser(userId, userPerfil, body) ==
    LET out == createUserRun(body, prisma) IN
    /\ req.op = "none"
    /\ out.res.status = 201 => prisma.usuarioSeq < MaxUsuarios
    /\ Answer("createUser", userId, userPerfil, 0, body, out)

\* dadosAtualizacao applied to a user row: nome, email and perfil when
\* truthy, ativo when boolean, senhaHash when senha is truthy
dadosAtualizacao(u, body) ==
    [u EXCEPT !.nome      = IF truthyStr(body, "nome") THEN body.nome ELSE @,
              !.email     = IF truthyStr(body, "email") THEN body.email ELSE @,
              !.perfil    = IF truthyStr(body, "perfil") THEN body.perfil ELSE @,
              !.ativo     = IF has(body, "ativo") THEN body.ativo ELSE @,
              !.senhaHash = IF truthySeq(body, "senha") THEN bcryptHash(body.senha) ELSE @]

\* prisma.usuario.update({ where: { id }, data }): email is a unique column,
\* so a value another row holds makes the update throw
usuarioUpdate(db, u, nova) ==
    IF \E o \in db.usuario : o.id # u.id /\ o.email = nova.email
    THEN Outcome(Err(500, "INTERNAL_SERVER_ERROR"), db)
    ELSE Outcome(Resp(200, "OK", Selecionar(nova)),
                 [db EXCEPT !.usuario = (@ \ {u}) \cup {nova}])

\* mutant: nome, email and ativo are written before perfil and senha are
\* validated
updateUserRunGravaAntes(id, body, db) ==
    LET usuarioExistente == findUnique(db.usuario, id) IN
    IF usuarioExistente = {} THEN Outcome(Err(404, "RESOURCE_NOT_FOUND"), db)
    ELSE LET u == The(usuarioExistente)
             antes == usuarioUpdate(db, u, dadosAtualizacao(u, Sem(Sem(body, "senha"), "perfil")))
         IN  IF truthyStr(body, "perfil") /\ body.perfil \notin Perfis
             THEN Outcome(Err(400, "VALIDATION_ERROR"), antes.db)
             ELSE IF truthySeq(body, "senha") /\ Len(body.senha) < 8
                  THEN Outcome(Err(400, "VALIDATION_ERROR"), antes.db)
             ELSE usuarioUpdate(db, u, dadosAtualizacao(u, body))

updateUserRun(id, body, db) ==
    LET usuarioExistente == findUnique(db.usuario, id) IN
    IF usuarioExistente = {} THEN Outcome(Err(404, "RESOURCE_NOT_FOUND"), db)
    ELSE IF truthyStr(body, "perfil") /\ body.perfil \notin Perfis
         THEN Outcome(Err(400, "VALIDATION_ERROR"), db)
    ELSE IF truthySeq(body, "senha") /\ Len(body.senha) < 8
         THEN Outcome(Err(400, "VALIDATION_ERROR"), db)
    ELSE usuarioUpdate(db, The(usuarioExistente), dadosAtualizacao(The(usuarioExistente), body))

updateUser(userId, userPerfil, id, body) ==
    Answer("updateUser", userId, userPerfil, id, body, updateUserRun(id, body, prisma))

\* the passwords sent: empty, seven, eight and nine characters
Senhas == {Senha0, Senha7, Senha8, Senha9}

\* sign-up bodies: two addresses and the administrator's, every password,
\* a body without senha and one that asks for perfil ADMIN
RegisterBodies ==
    { [nome |-> "Gil", email |-> e, senha |-> s] : e \in {"g@c", "h@c", "adm@c"}, s \in Senhas }
      \cup { [nome |-> "Gil", email |-> "g@c"],
             [nome |-> "Gil", email |-> "g@c", senha |-> Senha8, perfil |-> "ADMIN"] }

\* bodies the administrator sends to create a user
CreateUserBodies ==
    { [nome |-> "Hugo", email |-> "h@c", senha |-> s, perfil |-> pf] :
        s \in Senhas, pf \in {"MEDICO", "ROOT"} }
      \cup { [nome |-> "Hugo", email |-> "h@c", perfil |-> "MEDICO"] }

\* update bodies: a password alone, a password with nome, email, perfil and
\* ativo, a password with an unknown perfil, no password, a taken address
UpdateUserBodies ==
    { [senha |-> s] : s \in Senhas }
      \cup { [senha |-> s, nome |-> "Iris", email |-> "i@c", perfil |-> "ATENDENTE", ativo |-> FALSE] :
               s \in {Senha0, Senha7} }
      \cup { [senha |-> Senha7, perfil |-> "ROOT"],
             [nome |-> "Iris"],
             [email |-> "adm@c"] }

UsuarioIds == {"p1", "u1", GhostId}

InitUsers ==
    /\ prisma = PrismaVazio({u \in Usuarios0 : u.id \in {"adm", "p1"}})
    /\ tz \in TzOffsets
    /\ req = NoReq
    /\ res = NoRes
    /\ pre = prisma
    /\ inflight = <<>>

\* the users routes admit the administrator only (requireRole(['ADMIN']))
NextUsers ==
    \/ \E b \in RegisterBodies : register(b)
    \/ \E b \in CreateUserBodies : createUser(Admin[1], Admin[2], b)
    \/ \E id \in UsuarioIds, b \in UpdateUserBodies : updateUser(Admin[1], Admin[2], id, b)
    \/ Done

SpecUsers == InitUsers /\ [][NextUsers]_vars

---------------------------------------------------------------------------
(* Properties of the user specification *)

\* the request carries a senha of fewer than 8 characters
SenhaCurta == has(req.body, "senha") /\ Len(req.body.senha) < 8

Recusado400 == res.status = 400 /\ res.code = "VALIDATION_ERROR" /\ prisma = pre

\* C10 as stated: register, createUser and updateUser answer a request whose
\* senha is shorter than 8 characters with 400 VALIDATION_ERROR and create or
\* change no user record.
C10_SenhaCurtaRecusada ==
    (req.op \in {"register", "createUser", "updateUser"} /\ SenhaCurta) => Recusado400

\* C10 amended: register and createUser refuse every senha shorter than 8
\* characters with 400 VALIDATION_ERROR and create nothing; updateUser on an
\* existing id refuses a non-empty senha shorter than 8 characters with 400
\* VALIDATION_ERROR and changes nothing, whatever else the body carries;
\* updateUser treats an empty senha as absent, and answers 404
\* RESOURCE_NOT_FOUND, changing nothing, when no user has the id.
C10_SenhaCurtaAmended ==
    /\ (req.op \in {"register", "createUser"} /\ SenhaCurta) => Recusado400
    /\ (req.op = "updateUser" /\ SenhaCurta)
         => IF \A u \in pre.usuario : u.id # req.id
            THEN res.status = 404 /\ res.code = "RESOURCE_NOT_FOUND" /\ prisma = pre
            ELSE IF req.body.senha # <<>>
                 THEN Recusado400
            ELSE LET semSenha == updateUserRun(req.id, Sem(req.body, "senha"), pre)
                 IN  /\ res = semSenha.res
                     /\ prisma = semSenha.db
                     /\ \A u \in pre.usuario, n \in prisma.usuario :
                          u.id = n.id => u.senhaHash = n.senhaHash

\* C10 witness: updateUser on an existing user with a seven-character senha
\* and valid nome, email, perfil and ativo was answered 400 and changed
\* nothing
C10_Witness ==
    /\ req.op = "updateUser"
    /\ \E u \in pre.usuario : u.id = req.id
    /\ SenhaCurta /\ req.body.senha # <<>>
    /\ has(req.body, "nome") /\ has(req.body, "email")
    /\ has(req.body, "perfil") /\ has(req.body, "ativo")
    /\ Recusado400

---------------------------------------------------------------------------
(* The gate: authMiddleware and requireRole *)

\* process.env.JWT_SECRET
JwtSecret == "segredo"

\* the tokens that exist: access tokens signed by login for four users, one
\* of them long expired, a token signed with another secret that names the
\* administrator, and a refresh token ({ id } only), which login signs with
\* JWT_SECRET when REFRESH_JWT_SECRET is not set
JwtEmitidos ==
    { [token |-> "jwt.adm", id |-> "adm", perfil |-> "ADMIN",     secret |-> JwtSecret, expirado |-> FALSE],
      [token |-> "jwt.p1",  id |-> "p1",  perfil |-> "PACIENTE",  secret |-> JwtSecret, expirado |-> FALSE],
      [token |-> "jwt.m1",  id |-> "m1",  perfil |-> "MEDICO",    secret |-> JwtSecret, expirado |-> FALSE],
      [token |-> "jwt.ate", id |-> "ate", perfil |-> "ATENDENTE", secret |-> JwtSecret, expirado |-> FALSE],
      [token |-> "jwt.p1.velho",   id |-> "p1",  perfil |-> "PACIENTE", secret |-> JwtSecret, expirado |-> TRUE],
      [token |-> "jwt.adm.falso",  id |-> "adm", perfil |-> "ADMIN",    secret |-> "outro",   expirado |-> FALSE],
      [token |-> "jwt.p1.refresh", id |-> "p1",  perfil |-> NULL,       secret |-> JwtSecret, expirado |-> FALSE] }

\* jwt.verify(token, secret, callback): err unless the token was signed with
\* secret and has not expired; decoded is its payload
jwtVerify(token, secret) ==
    LET t == {e \in JwtEmitidos : e.token = token /\ e.secret = secret /\ ~e.expirado} IN
    IF t = {} THEN [err |-> TRUE, decoded |-> [id |-> NULL, perfil |-> NULL]]
    ELSE [err |-> FALSE, decoded |-> [id |-> The(t).id, perfil |-> The(t).perfil]]

\* a header value is a sequence of characters in which a token stands as one
\* element; the string a piece of it spells, as far as jwt.verify can tell
\* tokens apart: the token when the piece is one, no token otherwise
Texto(piece) == IF Len(piece) = 1 THEN piece[1] ELSE ""

toLowerCase(c) ==
    CASE c = "B" -> "b" [] c = "E" -> "e" [] c = "A" -> "a" [] c = "R" -> "r"
      [] c = "S" -> "s" [] c = "I" -> "i" [] c = "C" -> "c"
      [] OTHER -> c

\* /^Bearer$/i.test(scheme)
BearerTest(scheme) ==
    [i \in 1..Len(scheme) |-> toLowerCase(scheme[i])] = <<"b", "e", "a", "r", "e", "r">>

\* what a middleware yields: next() was called, or a response was sent
Segue(userId, userPerfil) ==
    [next |-> TRUE, res |-> NoRes, userId |-> userId, userPerfil |-> userPerfil]
Rejeita(status, code) ==
    [next |-> FALSE, res |-> Err(status, code), userId |-> NULL, userPerfil |-> NULL]

\* mutant: the scheme is not looked at
authMiddlewareSemScheme(headers) ==
    IF ~truthySeq(headers, "authorization") THEN Rejeita(401, "AUTH_MISSING_TOKEN")
    ELSE LET parts == split(headers.authorization, " ") IN
         IF Len(parts) # 2 THEN Rejeita(401, "AUTH_INVALID_TOKEN")
         ELSE LET v == jwtVerify(Texto(parts[2]), JwtSecret) IN
              IF v.err THEN Rejeita(401, "AUTH_INVALID_TOKEN")
              ELSE Segue(v.decoded.id, v.decoded.perfil)

\* mutant: the gate looks the user of the token up in the store, refuses a
\* missing or inactive user and attaches the stored perfil
authMiddlewareConsultaUsuario(headers) ==
    IF ~truthySeq(headers, "authorization") THEN Rejeita(401, "AUTH_MISSING_TOKEN")
    ELSE LET parts == split(headers.authorization, " ") IN
         IF Len(parts) # 2 THEN Rejeita(401, "AUTH_INVALID_TOKEN")
         ELSE IF ~BearerTest(parts[1]) THEN Rejeita(401, "AUTH_INVALID_TOKEN")
         ELSE LET v == jwtVerify(Texto(parts[2]), JwtSecret) IN
              IF v.err THEN Rejeita(401, "AUTH_INVALID_TOKEN")
              ELSE LET usuario == {u \in prisma.usuario : u.id = v.decoded.id} IN
                   IF usuario = {} \/ ~The(usuario).ativo THEN Rejeita(401, "AUTH_FORBIDDEN")
                   ELSE Segue(v.decoded.id, The(usuario).perfil)

\* authMiddleware(req, res, next).  Nothing in the try block throws: the
\* header is a string, and jwt.verify hands every failure to its callback,
\* so the catch block (AUTH_ERROR) is never entered
authMiddleware(headers) ==
    IF ~truthySeq(headers, "authorization") THEN Rejeita(401, "AUTH_MISSING_TOKEN")
    ELSE LET parts == split(headers.authorization, " ") IN
         IF Len(parts) # 2 THEN Rejeita(401, "AUTH_INVALID_TOKEN")
         ELSE IF ~BearerTest(parts[1]) THEN Rejeita(401, "AUTH_INVALID_TOKEN")
         ELSE LET v == jwtVerify(Texto(parts[2]), JwtSecret) IN
              IF v.err THEN Rejeita(401, "AUTH_INVALID_TOKEN")
              ELSE Segue(v.decoded.id, v.decoded.perfil)

\* mutant: a request without an attached role is let through
requireRoleSemPerfilPassa(roles, userId, userPerfil) ==
    IF userPerfil # NULL /\ userPerfil \notin roles THEN Rejeita(403, "AUTH_FORBIDDEN")
    ELSE Segue(userId, userPerfil)

\* requireRole(roles)(req, res, next)
requireRole(roles, userId, userPerfil) ==
    IF userPerfil = NULL THEN Rejeita(401, "AUTH_FORBIDDEN")
    ELSE IF userPerfil \notin roles THEN Rejeita(403, "AUTH_FORBIDDEN")
    ELSE Segue(userId, userPerfil)

---------------------------------------------------------------------------
(* Users: listUsers, getUser, deleteUser *)

\* prisma.usuario.findMany({ select }): the selected rows (user rows carry no
\* criadoEm here, so the order of the answer is not represented)
listUsersRun(db) ==
    Outcome(Resp(200, "OK", {Selecionar(u) : u \in db.usuario}), db)

listUsers(userId, userPerfil) ==
    Answer("listUsers", userId, userPerfil, 0, NoBody, listUsersRun(prisma))

getUserRun(id, db) ==
    LET usuario == findUnique(db.usuario, id) IN
    IF usuario = {} THEN Outcome(Err(404, "RESOURCE_NOT_FOUND"), db)
    ELSE Outcome(Resp(200, "OK", Selecionar(The(usuario))), db)

getUser(userId, userPerfil, id) ==
    Answer("getUser", userId, userPerfil, id, NoBody, getUserRun(id, prisma))

\* rows of other tables refer to the user
usuarioReferenciado(db, id) ==
    \/ \E k \in Kinds : \E row \in db[k] : row.pacienteId = id \/ row.medicoId = id
    \/ \E row \in db.resultadoExame : row.pacienteId = id \/ row.medicoId = id
    \/ \E row \in db.pushToken : row.usuarioId = id

\* prisma.usuario.delete({ where: { id } }) of a user no row refers to
deleteUserRun(id, db) ==
    LET usuario == findUnique(db.usuario, id) IN
    IF usuario = {} THEN Outcome(Err(404, "RESOURCE_NOT_FOUND"), db)
    ELSE Outcome(Resp(200, "OK", NULL), [db EXCEPT !.usuario = @ \ usuario])

\* taken for users that no other row refers to
deleteUser(userId, userPerfil, id) ==
    /\ req.op = "none"
    /\ ~usuarioReferenciado(prisma, id)
    /\ Answer("deleteUser", userId, userPerfil, id, NoBody, deleteUserRun(id, prisma))

---------------------------------------------------------------------------
(* Routers: the middleware chain in front of each handler *)

RotasConsultas == {"createConsulta", "listConsultas", "getConsulta", "updateConsulta", "deleteConsulta"}
RotasExames == {"createExame", "listExames", "getExame", "updateExame", "deleteExame"}
RotasResultados == {"createResultado", "listResultados", "getResultado"}
RotasPushTokens == {"registerPushToken", "deletePushToken"}
RotasUsers == {"listUsers", "createUser", "getUser", "updateUser", "deleteUser"}
\* the /auth router
RotasAuth == {"register", "login", "refresh"}

\* the /auth router puts no middleware in front of its handlers
CadeiaAuth == <<>>

\* mutant: the push-token router does not install the gate
CadeiaPushSemGate(op) ==
    IF op \in RotasUsers THEN <<"authMiddleware", "requireRole">>
    ELSE IF op \in RotasAuth \cup RotasPushTokens THEN <<>>
    ELSE <<"authMiddleware">>

\* router.use(...) calls of the router that holds the handler, in order
Cadeia(op) ==
    IF op \in RotasUsers THEN <<"authMiddleware", "requireRole">>
    ELSE IF op \in RotasAuth THEN CadeiaAuth
    ELSE <<"authMiddleware">>

\* the responses and stores the handler of op may produce
Outcomes(op, userId, userPerfil, id, body, db, zone) ==
    CASE op = "createConsulta" -> {createRun("consulta", userId, userPerfil, body, db, zone)}
      [] op = "createExame"    -> {createRun("exame", userId, userPerfil, body, db, zone)}
      [] op = "listConsultas"  ->
            {listRun("consulta", userId, userPerfil, db, l) : l \in listResults("consulta", userId, userPerfil, db)}
      [] op = "listExames"     ->
            {listRun("exame", userId, userPerfil, db, l) : l \in listResults("exame", userId, userPerfil, db)}
      [] op = "getConsulta"    -> {getRun("consulta", userId, userPerfil, id, db)}
      [] op = "getExame"       -> {getRun("exame", userId, userPerfil, id, db)}
      [] op = "updateConsulta" -> {updateRun("consulta", userId, userPerfil, id, body, db)}
      [] op = "updateExame"    -> {updateRun("exame", userId, userPerfil, id, body, db)}
      [] op = "deleteConsulta" -> {deleteRun("consulta", userId, userPerfil, id, db)}
      [] op = "deleteExame"    -> {deleteRun("exame", userId, userPerfil, id, db)}
      [] op = "createResultado" -> {createResultadoRun(userPerfil, body, db)}
      [] op = "listResultados" ->
            {Outcome(Resp(200, "OK", l), db) : l \in listResultadosResults(userId, userPerfil, db)}
      [] op = "getResultado"   -> {getResultadoRun(userId, userPerfil, id, db)}
      [] op = "registerPushToken" -> {registerPushTokenRun(userId, body, db)}
      [] op = "deletePushToken" -> {deletePushTokenRun(userId, id, db)}
      [] op = "listUsers"      -> {listUsersRun(db)}
      [] op = "createUser"     -> {createUserRun(body, db)}
      [] op = "getUser"        -> {getUserRun(id, db)}
      [] op = "updateUser"     -> {updateUserRun(id, body, db)}
      [] op = "deleteUser"     -> {deleteUserRun(id, db)}
      [] op = "register"       -> {registerRun(body, db)}

---------------------------------------------------------------------------
(* HTTP specification: a request passes the chain of its router, one      *)
(* middleware at a time, and then reaches its handler                      *)

\* most rows (bookings, results, push tokens, users) one run creates
MaxGateLinhas == 2

HttpLivre ==
    [stage |-> "idle", op |-> "none", headers |-> NoBody, id |-> 0, body |-> NoBody,
     userId |-> NULL, userPerfil |-> NULL, res |-> NoRes, chamados |-> <<>>]

\* the next middleware of the chain, "handler" after the last
Proximo(f) ==
    IF Len(f.chamados) < Len(Cadeia(f.op)) THEN Cadeia(f.op)[Len(f.chamados) + 1] ELSE "handler"

\* a middleware ran: it called next() or it answered
AposMiddleware(f, nome, r) ==
    IF r.next
    THEN [f EXCEPT !.userId = r.userId, !.userPerfil = r.userPerfil, !.chamados = Append(@, nome)]
    ELSE [f EXCEPT !.stage = "done", !.res = r.res, !.chamados = Append(@, nome)]

\* express hands the request to the router of its path
receberHttp(op, headers, id, body) ==
    /\ inflight.stage = "idle"
    /\ inflight' = [HttpLivre EXCEPT !.stage = "chain", !.op = op, !.headers = headers,
                                     !.id = id, !.body = body]
    /\ UNCHANGED <<prisma, tz, req, res, pre>>

\* router.use(authMiddleware)
passarAuthMiddleware ==
    /\ inflight.stage = "chain"
    /\ Proximo(inflight) = "authMiddleware"
    /\ inflight' = AposMiddleware(inflight, "authMiddleware", authMiddleware(inflight.headers))
    /\ UNCHANGED <<prisma, tz, req, res, pre>>

\* router.use(requireRole(['ADMIN']))
passarRequireRole ==
    /\ inflight.stage = "chain"
    /\ Proximo(inflight) = "requireRole"
    /\ inflight' = AposMiddleware(inflight, "requireRole",
                                  requireRole({"ADMIN"}, inflight.userId, inflight.userPerfil))
    /\ UNCHANGED <<prisma, tz, req, res, pre>>

LinhasCriadas(db) == NumBookings(db) + db.pushTokenSeq + db.usuarioSeq

\* the handler of the route runs with the identity the chain attached
executarHandler ==
    LET f == inflight IN
    /\ f.stage = "chain"
    /\ Proximo(f) = "handler"
    /\ f.op = "deleteUser" => ~usuarioReferenciado(prisma, f.id)
    /\ \E out \in Outcomes(f.op, f.userId, f.userPerfil, f.id, f.body, prisma, tz) :
        /\ out.res.status = 201 => LinhasCriadas(prisma) < MaxGateLinhas
        /\ req' = Request(f.op, f.userId, f.userPerfil, f.id, f.body)
        /\ res' = out.res
        /\ pre' = prisma
        /\ prisma' = out.db
        /\ inflight' = [f EXCEPT !.stage = "done", !.res = out.res,
                                 !.chamados = Append(@, "handler")]
    /\ UNCHANGED tz

\* the response has been sent; the next request may arrive
responderHttp ==
    /\ inflight.stage = "done"
    /\ inflight' = HttpLivre
    /\ req' = NoReq
    /\ res' = NoRes
    /\ pre' = prisma
    /\ UNCHANGED <<prisma, tz>>

Bearer == <<"B", "e", "a", "r", "e", "r">>

\* Authorization headers: none, empty, Bearer with each token, the scheme in
\* lower case, another scheme, the scheme alone, no space, two spaces, and a
\* string that is no token
HeadersHttp ==
    { NoBody, [authorization |-> <<>>] }
      \cup { [authorization |-> Bearer \o <<" ", e.token>>] : e \in JwtEmitidos }
      \cup { [authorization |-> <<"b", "e", "a", "r", "e", "r", " ", "jwt.m1">>],
             [authorization |-> <<"B", "a", "s", "i", "c", " ", "jwt.adm">>],
             [authorization |-> Bearer],
             [authorization |-> Bearer \o <<"jwt.adm">>],
             [authorization |-> Bearer \o <<" ", " ", "jwt.adm">>],
             [authorization |-> Bearer \o <<" ", "abc">>] }

PushBase == [token |-> "ExponentPushToken[aaa]", plataforma |-> "ios"]

\* one request <<op, id, body>> per route
PedidosHttp ==
    { <<"createConsulta", 0, BodyBase>>, <<"listConsultas", 0, NoBody>>,
      <<"getConsulta", 1, NoBody>>, <<"updateConsulta", 1, [status |-> "CANCELADA"]>>,
      <<"deleteConsulta", 1, NoBody>>,
      <<"createExame", 0, ComNome(BodyBase)>>, <<"listExames", 0, NoBody>>,
      <<"getExame", 1, NoBody>>, <<"updateExame", 1, [status |-> "CANCELADA"]>>,
      <<"deleteExame", 1, NoBody>>,
      <<"createResultado", 0, ResultadoBase>>, <<"listResultados", 0, NoBody>>,
      <<"getResultado", 1, NoBody>>,
      <<"registerPushToken", 0, PushBase>>, <<"deletePushToken", 1, NoBody>>,
      <<"listUsers", 0, NoBody>>,
      <<"createUser", 0, [nome |-> "Hugo", email |-> "h@c", senha |-> Senha8, perfil |-> "MEDICO"]>>,
      <<"getUser", "p2", NoBody>>, <<"updateUser", "p2", [nome |-> "Iris"]>>,
      <<"deleteUser", "p2", NoBody>>,
      <<"register", 0, [nome |-> "Gil", email |-> "g@c", senha |-> Senha8]>> }

\* the server runs on UTC in this specification
InitGate ==
    /\ prisma = PrismaVazio(Usuarios0)
    /\ tz = 0
    /\ req = NoReq
    /\ res = NoRes
    /\ pre = prisma
    /\ inflight = HttpLivre

NextGate ==
    \/ \E p \in PedidosHttp, h \in HeadersHttp : receberHttp(p[1], h, p[2], p[3])
    \/ passarAuthMiddleware
    \/ passarRequireRole
    \/ executarHandler
    \/ responderHttp

SpecGate == InitGate /\ [][NextGate]_vars

---------------------------------------------------------------------------
(* Properties of the HTTP specification *)

\* authMiddleware has run for the request in flight
GateRodou == inflight.chamados # <<>> /\ inflight.chamados[1] = "authMiddleware"

\* authMiddleware answered the request itself
GateRejeitou == GateRodou /\ inflight.stage = "done" /\ Len(inflight.chamados) = 1

\* authMiddleware called next()
GateAceitou == GateRodou /\ ~GateRejeitou

HeaderAusente == ~has(inflight.headers, "authorization")

\* the tokens that verify: signed with the server's secret and not expired
TokensValidos == {e \in JwtEmitidos : e.secret = JwtSecret /\ ~e.expirado}

\* the header is a scheme of six letters, one space and the token of e
HeaderCom(h, scheme, e) == h = scheme \o <<" ", e.token>>

\* the header spells Bearer in some letter case, one space, the token of e
HeaderBearerDe(e) ==
    /\ has(inflight.headers, "authorization")
    /\ LET h == inflight.headers.authorization IN
       /\ Len(h) = 8
       /\ \A i \in 1..6 : h[i] \in {Bearer[i], toLowerCase(Bearer[i])}
       /\ h[7] = " "
       /\ h[8] = e.token

\* C11 as stated: AUTH_MISSING_TOKEN when the header is absent,
\* AUTH_INVALID_TOKEN in every other failure, among them every header that
\* is not exactly 'Bearer <token>' with a token that verifies; no other code;
\* id and perfil are attached and next is called only on success.
C11_GateComoEscrito ==
    GateRodou
    => /\ HeaderAusente => (GateRejeitou /\ inflight.res.code = "AUTH_MISSING_TOKEN")
       /\ (GateRejeitou /\ ~HeaderAusente) => inflight.res.code = "AUTH_INVALID_TOKEN"
       /\ GateAceitou
            => \E e \in TokensValidos :
                 /\ has(inflight.headers, "authorization")
                 /\ HeaderCom(inflight.headers.authorization, Bearer, e)

\* C11 amended: authMiddleware answers 401 AUTH_MISSING_TOKEN when the
\* Authorization header is absent or empty and 401 AUTH_INVALID_TOKEN in
\* every other failure; it accepts exactly the headers made of the scheme
\* Bearer in any letter case, one space and a token that verifies, and only
\* then attaches the decoded id and perfil and calls next; it produces no
\* other error code.
C11_Gate ==
    GateRodou
    => /\ (HeaderAusente \/ ~truthySeq(inflight.headers, "authorization"))
            => (GateRejeitou /\ inflight.res.code = "AUTH_MISSING_TOKEN")
       /\ (GateRejeitou /\ truthySeq(inflight.headers, "authorization"))
            => inflight.res.code = "AUTH_INVALID_TOKEN"
       /\ GateRejeitou
            => /\ inflight.res.status = 401
               /\ inflight.userId = NULL /\ inflight.userPerfil = NULL
               /\ req.op = "none" /\ prisma = pre
       /\ GateAceitou <=> \E e \in TokensValidos : HeaderBearerDe(e)
       /\ GateAceitou
            => \E e \in TokensValidos :
                 /\ HeaderBearerDe(e)
                 /\ inflight.userId = e.id /\ inflight.userPerfil = e.perfil

\* C11 witness: a header with the scheme in lower case and a valid token was
\* accepted and the doctor's id and perfil were attached
C11_Witness ==
    /\ GateAceitou
    /\ inflight.headers.authorization[1] = "b"
    /\ inflight.userId = "m1" /\ inflight.userPerfil = "MEDICO"

\* the handler of the request in flight has run
HandlerRodou == inflight.chamados # <<>> /\ inflight.chamados[Len(inflight.chamados)] = "handler"

RotasComGate == RotasUsers \cup RotasConsultas \cup RotasExames \cup RotasResultados \cup RotasPushTokens

RoleRodou == Len(inflight.chamados) >= 2 /\ inflight.chamados[2] = "requireRole"

C13_AdminRemoveu ==
    /\ inflight.op = "deleteUser"
    /\ HandlerRodou
    /\ req.userPerfil = "ADMIN"
    /\ \E u \in pre.usuario : u.id = req.id
    /\ \A u \in prisma.usuario : u.id # req.id

---------------------------------------------------------------------------
(* More properties of the sequential booking specification *)

\* the create request carries every required field
CamposPresentes(k) ==
    /\ \A f \in {"pacienteId", "medicoId", "dia", "hora"} : has(req.body, f)
    /\ k = "exame" => has(req.body, "nome")

\* a patient asks for a booking of another patient
PacientePorOutro ==
    /\ req.userPerfil = "PACIENTE"
    /\ has(req.body, "pacienteId")
    /\ req.body.pacienteId # req.userId

Recusado(status, code) == res.status = status /\ res.code = code /\ prisma = pre

\* C14 as stated: a PACIENTE whose create request names another pacienteId
\* is answered 403 AUTH_FORBIDDEN and nothing is created.
C14_ComoEscrito ==
    \A k \in Kinds :
        (req.op = CreateOp(k) /\ PacientePorOutro) => Recusado(403, "AUTH_FORBIDDEN")

\* C14 amended: a PACIENTE whose create request carries every required field
\* and names another pacienteId is answered 403 AUTH_FORBIDDEN; with a
\* required field missing the answer is 400 VALIDATION_ERROR; in both cases
\* nothing is created, so every booking a PACIENTE creates has the caller's
\* id as pacienteId.
C14_PacienteSoParaSi ==
    \A k \in Kinds :
        req.op = CreateOp(k)
        => /\ (PacientePorOutro /\ CamposPresentes(k)) => Recusado(403, "AUTH_FORBIDDEN")
           /\ (PacientePorOutro /\ ~CamposPresentes(k)) => Recusado(400, "VALIDATION_ERROR")
           /\ (req.userPerfil = "PACIENTE" /\ res.status = 201)
                => \A row \in prisma[k] \ pre[k] : row.pacienteId = req.userId

\* C14 witness: patient p2 asked, with every field, for a booking of patient
\* p1 in a free slot and was answered 403
C14_Witness ==
    \E k \in Kinds :
        /\ req.op = CreateOp(k)
        /\ PacientePorOutro /\ CamposPresentes(k)
        /\ \E u \in pre.usuario : u.id = req.body.medicoId /\ u.perfil = "MEDICO"
        /\ LinhasDoSlot(k, pre) = {}
        /\ Recusado(403, "AUTH_FORBIDDEN")

\* medicoId names a user of the store whose perfil is MEDICO
MedicoResolve ==
    has(req.body, "medicoId")
      /\ \E u \in pre.usuario : u.id = req.body.medicoId /\ u.perfil = "MEDICO"

\* pacienteId names a user of the store
PacienteResolve ==
    has(req.body, "pacienteId") /\ \E u \in pre.usuario : u.id = req.body.pacienteId

\* C15 as stated: a record is created only when medicoId resolves to a
\* MEDICO and pacienteId to a user; otherwise the answer is 400
\* VALIDATION_ERROR and nothing is stored.
C15_ComoEscrito ==
    \A k \in Kinds :
        req.op = CreateOp(k)
        => /\ res.status = 201 => (MedicoResolve /\ PacienteResolve)
           /\ ~(MedicoResolve /\ PacienteResolve) => Recusado(400, "VALIDATION_ERROR")

\* C15 amended: a record is created only when medicoId resolves to a MEDICO
\* and pacienteId to a user; otherwise nothing is stored, and the answer is
\* 400 VALIDATION_ERROR unless the caller is a PACIENTE who names, with every
\* required field present, another pacienteId, who is answered 403
\* AUTH_FORBIDDEN first.
C15_ReferenciasResolvem ==
    \A k \in Kinds :
        req.op = CreateOp(k)
        => /\ res.status = 201 => (MedicoResolve /\ PacienteResolve)
           /\ ~(MedicoResolve /\ PacienteResolve)
                => IF PacientePorOutro /\ CamposPresentes(k)
                   THEN Recusado(403, "AUTH_FORBIDDEN")
                   ELSE Recusado(400, "VALIDATION_ERROR")

\* C15 witness: the administrator named as doctor a user who is a patient
\* and was answered 400
C15_Witness ==
    \E k \in Kinds :
        /\ req.op = CreateOp(k)
        /\ CamposPresentes(k)
        /\ \E u \in pre.usuario : u.id = req.body.medicoId /\ u.perfil = "PACIENTE"
        /\ PacienteResolve
        /\ Recusado(400, "VALIDATION_ERROR")

\* C16: the collision check ignores status.  A valid create for a doctor and
\* timestamp that any row holds, a canceled one included, is answered 409
\* SLOT_UNAVAILABLE and stores nothing; every row keeps its doctor and
\* timestamp in every request, so a slot once booked is never booked again
\* and no table ever holds two rows for one slot.
C16_SlotNuncaReaberto ==
    \A k \in Kinds :
        /\ (req.op = CreateOp(k) /\ PedidoValido(k) /\ LinhasDoSlot(k, pre) # {})
             => Recusado(409, "SLOT_UNAVAILABLE")
        /\ \A row \in pre[k] : \E depois \in prisma[k] :
               /\ depois.id = row.id
               /\ depois.medicoId = row.medicoId
               /\ depois.dataHora = row.dataHora
        /\ \A r1, r2 \in prisma[k] :
               (r1.medicoId = r2.medicoId /\ r1.dataHora = r2.dataHora) => r1.id = r2.id

\* C16 witness: a valid create for a slot whose only booking is canceled was
\* answered 409
C16_Witness ==
    \E k \in Kinds :
        /\ req.op = CreateOp(k)
        /\ PedidoValido(k)
        /\ LinhasDoSlot(k, pre) # {}
        /\ \A row \in LinhasDoSlot(k, pre) : row.status = "CANCELADA"
        /\ Recusado(409, "SLOT_UNAVAILABLE")

---------------------------------------------------------------------------
(* Edit specification: the administrator books, then every caller reads,  *)
(* updates and cancels the bookings                                       *)

\* most rows ever created in the edit specification
MaxEditados == 2

\* the bookings the administrator creates: p1 with m1 and p2 with m2
EditBodies ==
    { BodyBase, [BodyBase EXCEPT !.pacienteId = "p2", !.medicoId = "m2"] }

\* update bodies: a status of the enumeration, one outside it, the empty
\* string, each with and without detalhes; detalhes alone; nothing
EditUpdateBodies ==
    { [status |-> "REALIZADA"],
      [status |-> "PENDENTE"],
      [status |-> ""],
      [detalhes |-> "obs"],
      [status |-> "AGENDADA", detalhes |-> "obs"],
      [status |-> "PENDENTE", detalhes |-> "obs"],
      [status |-> "", detalhes |-> "obs"],
      NoBody }

EditIds == 1..(MaxEditados + 1)

InitEdit ==
    /\ prisma = PrismaVazio(Usuarios0)
    /\ tz = 0
    /\ req = NoReq
    /\ res = NoRes
    /\ pre = prisma
    /\ inflight = <<>>

NextEdit ==
    \/ \E b \in EditBodies :
          /\ req.op = "none"
          /\ Cabe(createRun("consulta", Admin[1], Admin[2], b, prisma, tz), prisma, MaxEditados)
          /\ createConsulta(Admin[1], Admin[2], b)
    \/ \E b \in EditBodies :
          /\ req.op = "none"
          /\ Cabe(createRun("exame", Admin[1], Admin[2], ComNome(b), prisma, tz), prisma, MaxEditados)
          /\ createExame(Admin[1], Admin[2], ComNome(b))
    \/ \E c \in Callers, id \in EditIds : getConsulta(c[1], c[2], id)
    \/ \E c \in Callers, id \in EditIds : getExame(c[1], c[2], id)
    \/ \E c \in Callers, id \in EditIds, b \in EditUpdateBodies : updateConsulta(c[1], c[2], id, b)
    \/ \E c \in Callers, id \in EditIds, b \in EditUpdateBodies : updateExame(c[1], c[2], id, b)
    \/ \E c \in Callers, id \in EditIds : deleteConsulta(c[1], c[2], id)
    \/ \E c \in Callers, id \in EditIds : deleteExame(c[1], c[2], id)
    \/ Done

SpecEdit == InitEdit /\ [][NextEdit]_vars

---------------------------------------------------------------------------
(* Properties of the edit specification *)

\* the rows of table k with the id the request names, before and after
Antes(k) == {row \in pre[k] : row.id = req.id}
Depois(k) == {row \in prisma[k] : row.id = req.id}

\* the request found its row and passed the permission check of update
UpdateAdmitido(k) ==
    /\ req.op = UpdateOp(k)
    /\ Antes(k) # {}
    /\ ~acessoProibido(req.userId, req.userPerfil, The(Antes(k)))

\* the store differs from the one the request arrived at in at most the
\* status and detalhes of the row the request names
SoStatusEDetalhes(k) ==
    IF Antes(k) = {} THEN prisma = pre
    ELSE /\ Cardinality(Depois(k)) = 1
         /\ prisma = [pre EXCEPT ![k] = (@ \ Antes(k)) \cup Depois(k)]
         /\ DOMAIN The(Depois(k)) = DOMAIN The(Antes(k))
         /\ \A f \in DOMAIN The(Antes(k)) \ {"status", "detalhes"} :
                The(Depois(k))[f] = The(Antes(k))[f]

\* status is written only with a supplied status of the enumeration,
\* detalhes only with supplied detalhes
SoCamposFornecidos(k) ==
    Antes(k) # {}
    => LET antes == The(Antes(k))
           depois == The(Depois(k))
       IN  /\ depois.status # antes.status
                => /\ has(req.body, "status")
                   /\ req.body.status \in statusValidos
                   /\ depois.status = req.body.status
           /\ depois.detalhes # antes.detalhes
                => has(req.body, "detalhes") /\ depois.detalhes = req.body.detalhes
           /\ res.status = 200
                => /\ (has(req.body, "status") /\ req.body.status \in statusValidos)
                        => depois.status = req.body.status
                   /\ has(req.body, "detalhes") => depois.detalhes = req.body.detalhes

\* C17 as stated: update writes status only when a status of the
\* enumeration is supplied, detalhes only when supplied, never another
\* field; any other supplied status is answered 400 VALIDATION_ERROR with
\* no change.
C17_ComoEscrito ==
    \A k \in Kinds :
        req.op = UpdateOp(k)
        => /\ SoStatusEDetalhes(k)
           /\ SoCamposFornecidos(k)
           /\ (UpdateAdmitido(k) /\ has(req.body, "status")
                 /\ req.body.status \notin statusValidos)
                => Recusado(400, "VALIDATION_ERROR")

\* C17 amended: update writes status only when a status of the enumeration
\* is supplied, detalhes only when supplied, never another field; a
\* supplied non-empty status outside the enumeration is answered 400
\* VALIDATION_ERROR with no change, and an empty status is treated as not
\* supplied: the answer is 200, status is kept and supplied detalhes are
\* written.
C17_SoCamposFornecidos ==
    \A k \in Kinds :
        req.op = UpdateOp(k)
        => /\ SoStatusEDetalhes(k)
           /\ SoCamposFornecidos(k)
           /\ (UpdateAdmitido(k) /\ truthyStr(req.body, "status")
                 /\ req.body.status \notin statusValidos)
                => Recusado(400, "VALIDATION_ERROR")
           /\ (UpdateAdmitido(k) /\ has(req.body, "status") /\ req.body.status = "")
                => /\ res.status = 200
                   /\ The(Depois(k)).status = The(Antes(k)).status

\* C17 witness: an update supplying only detalhes was answered 200 on a
\* canceled booking, wrote detalhes and left the status CANCELADA, while the
\* tables hold another row
C17_Witness ==
    \E k \in Kinds :
        /\ UpdateAdmitido(k)
        /\ req.body = [detalhes |-> "obs"]
        /\ res.status = 200
        /\ NumBookings(prisma) = 2
        /\ The(Antes(k)).status = "CANCELADA" /\ The(Antes(k)).detalhes = NULL
        /\ The(Depois(k)).status = "CANCELADA" /\ The(Depois(k)).detalhes = "obs"

\* C18: update is answered 403 exactly when a get of the same id by the
\* same caller would be, and then the code is AUTH_FORBIDDEN and the record
\* is unchanged; conversely a get answered 403 means every update of that
\* id by that caller is answered 403.
C18_UpdateComoGet ==
    \A k \in Kinds :
        /\ req.op = UpdateOp(k)
             => LET get == getRun(k, req.userId, req.userPerfil, req.id, pre) IN
                /\ res.status = 403 <=> get.res.status = 403
                /\ res.status = 403 => Recusado(403, "AUTH_FORBIDDEN")
        /\ req.op = GetOp(k)
             => \A b \in EditUpdateBodies :
                  LET update == updateRun(k, req.userId, req.userPerfil, req.id, b, pre) IN
                  /\ res.status = 403 <=> update.res.status = 403
                  /\ res.status = 403 => update.db = pre

\* C18 witness: doctor m2 sent a well-formed update for a booking of doctor
\* m1 and was answered 403
C18_Witness ==
    \E k \in Kinds :
        /\ req.op = UpdateOp(k)
        /\ req.userPerfil = "MEDICO"
        /\ req.body = [status |-> "REALIZADA"]
        /\ \E row \in pre[k] : row.id = req.id /\ row.medicoId # req.userId
        /\ Recusado(403, "AUTH_FORBIDDEN")
        /\ getRun(k, req.userId, req.userPerfil, req.id, pre).res.status = 403

\* C19: cancel sets the status of the row it names to CANCELADA and changes
\* nothing else, in the row or in the store; a cancel that is refused changes
\* nothing; and no request removes a booking, so the number of stored
\* bookings never decreases.
C19_CancelSoStatus ==
    \A k \in Kinds :
        /\ (req.op = DeleteOp(k) /\ res.status = 200)
             => /\ Cardinality(Antes(k)) = 1
                /\ Depois(k) = {[The(Antes(k)) EXCEPT !.status = "CANCELADA"]}
                /\ prisma = [pre EXCEPT ![k] = (@ \ Antes(k)) \cup Depois(k)]
        /\ (req.op = DeleteOp(k) /\ res.status # 200) => prisma = pre
        /\ Cardinality(prisma[k]) >= Cardinality(pre[k])
        /\ \A row \in pre[k] : \E depois \in prisma[k] : depois.id = row.id

\* C19 witness: a cancel answered 200 turned a REALIZADA booking with
\* detalhes into a CANCELADA one, while the tables hold another row
C19_Witness ==
    \E k \in Kinds :
        /\ req.op = DeleteOp(k)
        /\ res.status = 200
        /\ NumBookings(pre) = 2
        /\ NumBookings(prisma) = 2
        /\ The(Antes(k)).status = "REALIZADA" /\ The(Antes(k)).detalhes = "obs"
        /\ The(Depois(k)).status = "CANCELADA" /\ The(Depois(k)).detalhes = "obs"

\* a doctor names a booking of another doctor
MedicoDeOutro(k) ==
    /\ req.userPerfil = "MEDICO"
    /\ Antes(k) # {}
    /\ The(Antes(k)).medicoId # req.userId

\* C20: cancel of an existing booking is forbidden only to a PACIENTE who is
\* not its patient.  A MEDICO who is not the booking's doctor is answered
\* 403 by get and by update of that booking, yet the cancel is answered 200
\* and sets the status to CANCELADA; the same holds for exams.
C20_CancelSoBarraPaciente ==
    \A k \in Kinds :
        /\ (req.op = DeleteOp(k) /\ Antes(k) # {})
             => /\ res.status = 403
                     <=> (req.userPerfil = "PACIENTE"
                            /\ The(Antes(k)).pacienteId # req.userId)
                /\ res.status \in {200, 403}
        /\ (req.op = DeleteOp(k) /\ MedicoDeOutro(k))
             => /\ res.status = 200
                /\ The(Depois(k)).status = "CANCELADA"
                /\ getRun(k, req.userId, req.userPerfil, req.id, pre).res.status = 403
                /\ \A b \in EditUpdateBodies :
                     updateRun(k, req.userId, req.userPerfil, req.id, b, pre).res.status = 403
        /\ (req.op \in {GetOp(k), UpdateOp(k)} /\ MedicoDeOutro(k))
             => Recusado(403, "AUTH_FORBIDDEN")

\* C20 witness: doctor m2 canceled a booking of doctor m1 that was not yet
\* canceled
C20_Witness ==
    \E k \in Kinds :
        /\ req.op = DeleteOp(k)
        /\ MedicoDeOutro(k)
        /\ The(Antes(k)).status # "CANCELADA"
        /\ res.status = 200
        /\ The(Depois(k)).status = "CANCELADA"

---------------------------------------------------------------------------
(* Result specification: the administrator books exams and appointments,  *)
(* callers update and cancel them, publish results and read them          *)

\* most rows ever created in the result specification
MaxPublicados == 3

\* result bodies: for exam 1 with and without detalhes, for exam 2, without
\* exameId, for exam 2 without pacienteId
PublicarBodies ==
    { ResultadoBase,
      ResultadoBase @@ [detalhes |-> "laudo", arquivoUrl |-> "url"],
      [ResultadoBase EXCEPT !.exameId = 2],
      Sem(ResultadoBase, "exameId"),
      Sem([ResultadoBase EXCEPT !.exameId = 2], "pacienteId") }

\* the callers that publish: the administrator, the exam's doctor, another
\* doctor, a patient, the attendant
Publicadores ==
    { Admin, <<"m1", "MEDICO">>, <<"m2", "MEDICO">>, <<"p1", "PACIENTE">>,
      <<"ate", "ATENDENTE">> }

\* the callers that edit bookings in this specification
EditoresPublicados == { Admin, <<"m1", "MEDICO">> }

PublicadoUpdateBodies == { [status |-> "REALIZADA"], [detalhes |-> "obs"] }

PublicadoIds == 1..2

NextResultado ==
    \/ /\ req.op = "none"
       /\ Cabe(createRun("consulta", Admin[1], Admin[2], BodyBase, prisma, tz), prisma, MaxPublicados)
       /\ createConsulta(Admin[1], Admin[2], BodyBase)
    \/ /\ req.op = "none"
       /\ Cabe(createRun("exame", Admin[1], Admin[2], ComNome(BodyBase), prisma, tz), prisma, MaxPublicados)
       /\ createExame(Admin[1], Admin[2], ComNome(BodyBase))
    \/ \E c \in Publicadores, b \in PublicarBodies :
          /\ req.op = "none"
          /\ Cabe(createResultadoRun(c[2], b, prisma), prisma, MaxPublicados)
          /\ createResultado(c[1], c[2], b)
    \/ \E c \in EditoresPublicados, id \in PublicadoIds, b \in PublicadoUpdateBodies :
          updateConsulta(c[1], c[2], id, b)
    \/ \E c \in EditoresPublicados, id \in PublicadoIds, b \in PublicadoUpdateBodies :
          updateExame(c[1], c[2], id, b)
    \/ \E c \in EditoresPublicados, id \in PublicadoIds : deleteConsulta(c[1], c[2], id)
    \/ \E c \in EditoresPublicados, id \in PublicadoIds : deleteExame(c[1], c[2], id)
    \/ \E c \in EditoresPublicados, id \in PublicadoIds : getExame(c[1], c[2], id)
    \/ \E c \in Publicadores : listResultados(c[1], c[2])
    \/ \E c \in Publicadores, id \in PublicadoIds : getResultado(c[1], c[2], id)
    \/ Done

SpecResultado == InitEdit /\ [][NextResultado]_vars

---------------------------------------------------------------------------
(* Properties of the result specification *)

\* the body carries the three required references
ResultadoCompleto ==
    \A f \in {"exameId", "pacienteId", "medicoId"} : has(req.body, f)

\* exameId names an exam of the store the request arrived at
ExameExiste ==
    has(req.body, "exameId") /\ \E e \in pre.exame : e.id = req.body.exameId

\* C21 as stated: a result is stored only for a MEDICO or ADMIN caller and an
\* existing exam; every request of a PACIENTE or ATENDENTE is answered 403
\* AUTH_FORBIDDEN, a request of a permitted caller naming a missing exam 404
\* RESOURCE_NOT_FOUND, and nothing is stored.
C21_ComoEscrito ==
    req.op = "createResultado"
    => /\ res.status = 201 => (req.userPerfil \in {"MEDICO", "ADMIN"} /\ ExameExiste)
       /\ req.userPerfil \in {"PACIENTE", "ATENDENTE"} => Recusado(403, "AUTH_FORBIDDEN")
       /\ (req.userPerfil \in {"MEDICO", "ADMIN"} /\ has(req.body, "exameId") /\ ~ExameExiste)
            => Recusado(404, "RESOURCE_NOT_FOUND")

\* C21 amended: a result is stored only for a MEDICO or ADMIN caller and an
\* existing exam.  A request that carries exameId, pacienteId and medicoId is
\* answered 403 AUTH_FORBIDDEN when the caller is a PACIENTE or ATENDENTE
\* and, for a permitted caller, 404 RESOURCE_NOT_FOUND when the exam is
\* missing; a request lacking one of the three is answered 400
\* VALIDATION_ERROR whoever sends it.  In all these cases nothing is stored.
C21_SoMedicoOuAdmin ==
    req.op = "createResultado"
    => /\ res.status = 201 => (req.userPerfil \in {"MEDICO", "ADMIN"} /\ ExameExiste)
       /\ res.status # 201 => prisma = pre
       /\ ~ResultadoCompleto => Recusado(400, "VALIDATION_ERROR")
       /\ (ResultadoCompleto /\ req.userPerfil \in {"PACIENTE", "ATENDENTE"})
            => Recusado(403, "AUTH_FORBIDDEN")
       /\ (ResultadoCompleto /\ req.userPerfil \in {"MEDICO", "ADMIN"} /\ ~ExameExiste)
            => Recusado(404, "RESOURCE_NOT_FOUND")

\* C21 witness: the attendant sent a complete result for an existing exam and
\* was answered 403
C21_Witness ==
    /\ req.op = "createResultado"
    /\ req.userPerfil = "ATENDENTE"
    /\ ResultadoCompleto
    /\ ExameExiste
    /\ Recusado(403, "AUTH_FORBIDDEN")

\* C21: a doctor named a missing exam and was answered 404
C21_ExameAusente ==
    /\ req.op = "createResultado"
    /\ req.userPerfil = "MEDICO"
    /\ ResultadoCompleto
    /\ ~ExameExiste
    /\ Recusado(404, "RESOURCE_NOT_FOUND")

\* C22: an exam result is immutable once created.  Whatever request to
\* /resultados, /exames or /consultas is answered, every result stored before
\* it is stored after it with the same field values, a created result carries
\* the values of its request, and no two results share an id.
C22_ResultadoImutavel ==
    /\ \A row \in pre.resultadoExame : row \in prisma.resultadoExame
    /\ \A r1, r2 \in prisma.resultadoExame : r1.id = r2.id => r1 = r2
    /\ \A row \in prisma.resultadoExame \ pre.resultadoExame :
          /\ req.op = "createResultado"
          /\ row.exameId = req.body.exameId
          /\ row.pacienteId = req.body.pacienteId
          /\ row.medicoId = req.body.medicoId

\* C22 witness: an exam that has a result with detalhes was canceled, and the
\* result is stored as before
C22_Witness ==
    /\ req.op = "deleteExame"
    /\ res.status = 200
    /\ \E row \in pre.resultadoExame :
          /\ row.exameId = req.id
          /\ row.detalhes = "laudo"
          /\ row \in prisma.resultadoExame
    /\ \E e \in prisma.exame : e.id = req.id /\ e.status = "CANCELADA"

---------------------------------------------------------------------------
(* Concurrent push-token requests: registerPushToken and deletePushToken  *)
(* advance from one await to the next and interleave.  req, res and pre   *)
(* record the request whose storage write ran last, its response and the  *)
(* store before that write                                                *)

\* the token column carries a unique index: findUnique({ where: { token } })
\* selects by it
TokenUnico == TRUE

\* an error a storage call throws, and none
PrismaErro(code) == [name |-> "PrismaClientKnownRequestError", code |-> code]
NoErro == [name |-> "none", code |-> "none"]

\* errorHandler, the last middleware of the app: it answers the errors that
\* reach Express
errorHandler(err) ==
    IF err.name = "ValidationError" THEN Err(400, "VALIDATION_ERROR")
    ELSE IF err.code = "P2002" THEN Err(409, "RESOURCE_CONFLICT")
    ELSE IF err.code = "P2025" THEN Err(404, "RESOURCE_NOT_FOUND")
    ELSE Err(500, "INTERNAL_SERVER_ERROR")

\* the catch block of a handler: whatever was thrown is logged and answered
\* 500; nothing is passed on to Express
catchBlock(err) == Err(500, "INTERNAL_SERVER_ERROR")

\* log is the error the handler's catch block wrote with console.error
PushFrameLivre ==
    [pc |-> "idle", op |-> "none", userId |-> NULL, id |-> 0, body |-> NoBody,
     res |-> NoRes, log |-> NoErro]

\* register frames that have not answered yet
RegistrosPendentes ==
    {i \in DOMAIN inflight :
        inflight[i].op = "registerPushToken" /\ inflight[i].pc \notin {"idle", "done"}}

\* registerPushToken arrives: the two validations run up to the first await
receberRegister(i, userId, body) ==
    LET f == [pc |-> "findToken", op |-> "registerPushToken", userId |-> userId,
              id |-> 0, body |-> body, res |-> NoRes, log |-> NoErro] IN
    /\ inflight[i].pc = "idle"
    /\ prisma.pushTokenSeq + Cardinality(RegistrosPendentes) < MaxPushTokens
    /\ Avancar(i, IF pushCamposFaltando(body)
                  THEN Responder(f, Err(400, "VALIDATION_ERROR"))
                  ELSE IF body.plataforma \notin plataformasValidas
                       THEN Responder(f, Err(400, "VALIDATION_ERROR"))
                  ELSE f)
    /\ UNCHANGED prisma

\* await prisma.pushToken.findUnique({ where: { token } })
awaitFindToken(i) ==
    LET f == inflight[i] IN
    /\ f.pc = "findToken"
    /\ Avancar(i, IF findUniqueToken(prisma.pushToken, f.body.token) # {}
                  THEN [f EXCEPT !.pc = "updateToken"]
                  ELSE [f EXCEPT !.pc = "createToken"])
    /\ UNCHANGED prisma

\* a storage write of frame f ran, throwing err or nothing, and the handler
\* answered
Escrever(i, f, err, out) ==
    /\ inflight' = [inflight EXCEPT ![i] = Responder([f EXCEPT !.log = err], out.res)]
    /\ req' = Request(f.op, f.userId, NULL, f.id, f.body)
    /\ res' = out.res
    /\ pre' = prisma
    /\ prisma' = out.db
    /\ UNCHANGED tz

\* prisma.pushToken.update({ where: { token }, data }) throws P2025 when no
\* row has the token any more
pushTokenUpdateErro(body, db) ==
    IF findUniqueToken(db.pushToken, body.token) = {} THEN PrismaErro("P2025") ELSE NoErro

pushTokenUpdateRun(userId, body, db) ==
    LET linha == findUniqueToken(db.pushToken, body.token)
        err == pushTokenUpdateErro(body, db) IN
    IF err # NoErro THEN Outcome(catchBlock(err), db)
    ELSE LET nova == pushTokenUpdate(The(linha), userId, body.plataforma)
         IN  Outcome(Resp(200, "OK", nova),
                     [db EXCEPT !.pushToken = (@ \ linha) \cup {nova}])

awaitUpdateToken(i) ==
    LET f == inflight[i] IN
    /\ f.pc = "updateToken"
    /\ Escrever(i, f, pushTokenUpdateErro(f.body, prisma),
                pushTokenUpdateRun(f.userId, f.body, prisma))

\* mutant: create inserts whatever the table holds
pushTokenCreateRunSemIndice(userId, body, db) ==
    LET nova == pushTokenCreate(db, userId, body)
    IN  Outcome(Resp(201, "OK", nova),
                [db EXCEPT !.pushToken = @ \cup {nova}, !.pushTokenSeq = @ + 1])

\* prisma.pushToken.create({ data }) throws P2002 when the token is stored
\* already
pushTokenCreateErro(body, db) ==
    IF TokenUnico /\ findUniqueToken(db.pushToken, body.token) # {}
    THEN PrismaErro("P2002") ELSE NoErro

pushTokenCreateRun(userId, body, db) ==
    LET err == pushTokenCreateErro(body, db) IN
    IF err # NoErro THEN Outcome(catchBlock(err), db)
    ELSE LET nova == pushTokenCreate(db, userId, body)
         IN  Outcome(Resp(201, "OK", nova),
                     [db EXCEPT !.pushToken = @ \cup {nova}, !.pushTokenSeq = @ + 1])

awaitCreateToken(i) ==
    LET f == inflight[i] IN
    /\ f.pc = "createToken"
    /\ Escrever(i, f, pushTokenCreateErro(f.body, prisma),
                pushTokenCreateRun(f.userId, f.body, prisma))

\* deletePushToken arrives
receberDelete(i, userId, id) ==
    /\ inflight[i].pc = "idle"
    /\ Avancar(i, [pc |-> "findId", op |-> "deletePushToken", userId |-> userId,
                   id |-> id, body |-> NoBody, res |-> NoRes, log |-> NoErro])
    /\ UNCHANGED prisma

\* await prisma.pushToken.findUnique({ where: { id } }) and the owner check
awaitFindId(i) ==
    LET f == inflight[i]
        pushToken == findUnique(prisma.pushToken, f.id) IN
    /\ f.pc = "findId"
    /\ Avancar(i, IF pushToken = {} THEN Responder(f, Err(404, "RESOURCE_NOT_FOUND"))
                  ELSE IF The(pushToken).usuarioId # f.userId
                       THEN Responder(f, Err(403, "AUTH_FORBIDDEN"))
                  ELSE [f EXCEPT !.pc = "delete"])
    /\ UNCHANGED prisma

\* prisma.pushToken.delete({ where: { id } }) throws P2025 when the row is
\* gone
pushTokenDeleteErro(id, db) ==
    IF findUnique(db.pushToken, id) = {} THEN PrismaErro("P2025") ELSE NoErro

pushTokenDeleteRun(id, db) ==
    LET linha == findUnique(db.pushToken, id)
        err == pushTokenDeleteErro(id, db) IN
    IF err # NoErro THEN Outcome(catchBlock(err), db)
    ELSE Outcome(Resp(200, "OK", NULL), [db EXCEPT !.pushToken = @ \ linha])

awaitDelete(i) ==
    LET f == inflight[i] IN
    /\ f.pc = "delete"
    /\ Escrever(i, f, pushTokenDeleteErro(f.id, prisma), pushTokenDeleteRun(f.id, prisma))

\* the response went out; the connection slot takes the next request
concluir(i) ==
    /\ inflight[i].pc = "done"
    /\ Avancar(i, PushFrameLivre)
    /\ UNCHANGED prisma

\* bodies of the concurrent requests: one token on two platforms, another
\* token, a platform outside the list, no platform
PushRaceBodies ==
    { [token |-> "ExponentPushToken[aaa]", plataforma |-> "ios"],
      [token |-> "ExponentPushToken[aaa]", plataforma |-> "android"],
      [token |-> "ExponentPushToken[bbb]", plataforma |-> "web"],
      [token |-> "ExponentPushToken[aaa]", plataforma |-> "windows"],
      [token |-> "ExponentPushToken[aaa]"] }

PushRaceCallers == {"p1", "p2"}

InitPushRace ==
    /\ prisma = PrismaVazio(Usuarios0)
    /\ tz = 0
    /\ req = NoReq
    /\ res = NoRes
    /\ pre = prisma
    /\ inflight = [i \in 1..MaxInFlight |-> PushFrameLivre]

NextPushRace ==
    \E i \in 1..MaxInFlight :
        \/ \E u \in PushRaceCallers, b \in PushRaceBodies : receberRegister(i, u, b)
        \/ awaitFindToken(i)
        \/ awaitUpdateToken(i)
        \/ awaitCreateToken(i)
        \/ \E u \in PushRaceCallers, id \in 1..MaxPushTokens : receberDelete(i, u, id)
        \/ awaitFindId(i)
        \/ awaitDelete(i)
        \/ concluir(i)

SpecPushRace == InitPushRace /\ [][NextPushRace]_vars

---------------------------------------------------------------------------
(* Properties of the concurrent push-token specification *)

\* rows of store db with the token the last write named
LinhasDoToken(db) == {row \in db.pushToken : row.token = req.body.token}

\* C23: in every state reached by interleaving the find and write steps of
\* concurrent registerPushToken (and deletePushToken) requests, the store
\* holds at most one row per token value; a register write that succeeds
\* leaves the token's row owned by its caller and every other row as it was,
\* a write that fails and a delete change no owner, so the row is owned by
\* the user whose register request wrote last; and a register request with a
\* plataforma outside {ios, android, web} is answered 400 and never reaches
\* a storage call.
C23_UmDonoPorToken ==
    /\ \A r1, r2 \in prisma.pushToken : (r1.token = r2.token \/ r1.id = r2.id) => r1 = r2
    /\ \A row \in prisma.pushToken : row.plataforma \in plataformasValidas
    /\ (req.op = "registerPushToken" /\ res.status \in {200, 201})
         => /\ Cardinality(LinhasDoToken(prisma)) = 1
            /\ The(LinhasDoToken(prisma)).usuarioId = req.userId
            /\ prisma.pushToken \ LinhasDoToken(prisma) = pre.pushToken \ LinhasDoToken(pre)
    /\ (req.op = "registerPushToken" /\ res.status \notin {200, 201})
         => prisma.pushToken = pre.pushToken
    /\ req.op = "deletePushToken" => prisma.pushToken \subseteq pre.pushToken
    /\ \A i \in DOMAIN inflight :
         LET f == inflight[i] IN
         (f.op = "registerPushToken"
            /\ (has(f.body, "plataforma") => f.body.plataforma \notin plataformasValidas))
         => /\ f.pc = "done"
            /\ f.res.status = 400

\* C23 witness: two register requests for one token both found no row; the
\* first created it, the second was refused by the index, and the row is
\* owned by the first caller
C23_Witness ==
    \E i, j \in DOMAIN inflight :
        /\ i # j
        /\ inflight[i].pc = "done" /\ inflight[i].res.status = 201
        /\ inflight[j].pc = "done" /\ inflight[j].res.status = 500
        /\ inflight[j].op = "registerPushToken"
        /\ inflight[i].body.token = inflight[j].body.token
        /\ inflight[i].userId # inflight[j].userId
        /\ req.op = "registerPushToken" /\ res.status = 500
        /\ \E row \in prisma.pushToken :
              row.token = inflight[i].body.token /\ row.usuarioId = inflight[i].userId

\* C23: two register requests for a stored token both found the row and both
\* updated it; the row is owned by the one that wrote last
C23_UltimoEscritor ==
    \E i, j \in DOMAIN inflight :
        /\ i # j
        /\ inflight[i].op = "registerPushToken" /\ inflight[j].op = "registerPushToken"
        /\ inflight[i].pc = "done" /\ inflight[i].res.status = 200
        /\ inflight[j].pc = "done" /\ inflight[j].res.status = 200
        /\ inflight[i].body.token = inflight[j].body.token
        /\ inflight[i].userId # inflight[j].userId
        /\ req.op = "registerPushToken" /\ res.status = 200

---------------------------------------------------------------------------
(* More properties of the push-token specification *)

\* the push-token rows with the id the request names, in the store the
\* request arrived at
TokenAlvo == {row \in pre.pushToken : row.id = req.id}

\* C24: deletePushToken removes a row only when the caller's id equals the
\* row's usuarioId, and then removes exactly that row; any other caller,
\* the administrator included, is answered 403 AUTH_FORBIDDEN and the row
\* remains; an id no row has is answered 404 RESOURCE_NOT_FOUND.
C24_SoDonoRemove ==
    req.op = "deletePushToken"
    => /\ TokenAlvo = {} => Recusado(404, "RESOURCE_NOT_FOUND")
       /\ (TokenAlvo # {} /\ The(TokenAlvo).usuarioId # req.userId)
            => Recusado(403, "AUTH_FORBIDDEN")
       /\ (TokenAlvo # {} /\ The(TokenAlvo).usuarioId = req.userId)
            => /\ res.status = 200
               /\ prisma = [pre EXCEPT !.pushToken = @ \ TokenAlvo]

\* C24 witness: the administrator asked to delete a token of patient p1 and
\* was answered 403
C24_Witness ==
    /\ req.op = "deletePushToken"
    /\ req.userPerfil = "ADMIN"
    /\ TokenAlvo # {}
    /\ The(TokenAlvo).usuarioId = "p1"
    /\ Recusado(403, "AUTH_FORBIDDEN")

---------------------------------------------------------------------------
(* More properties of the user-management specification *)

\* the request names an email that a user of the store it arrived at holds
EmailJaUsado ==
    has(req.body, "email") /\ \E u \in pre.usuario : u.email = req.body.email

\* the body passes the validations that come before the email lookup
CadastroValido ==
    /\ truthyStr(req.body, "nome")
    /\ truthyStr(req.body, "email")
    /\ has(req.body, "senha") /\ Len(req.body.senha) >= 8
    /\ req.op = "createUser" => (has(req.body, "perfil") /\ req.body.perfil \in Perfis)

EmailsDistintos(db) ==
    \A u1, u2 \in db.usuario : u1.email = u2.email => u1.id = u2.id

\* C25 as stated: no two users share an email; register and createUser with
\* an email already stored are answered 409 RESOURCE_CONFLICT and create
\* nothing; register creates the account with perfil PACIENTE.
C25_ComoEscrito ==
    /\ EmailsDistintos(prisma)
    /\ (req.op \in {"register", "createUser"} /\ EmailJaUsado)
         => Recusado(409, "RESOURCE_CONFLICT")
    /\ (req.op = "register" /\ res.status = 201)
         => \A u \in prisma.usuario \ pre.usuario : u.perfil = "PACIENTE"

\* C25 amended: no two users share an email after any sequence of register,
\* createUser and updateUser requests; register and createUser with an email
\* already stored create nothing and are answered 409 RESOURCE_CONFLICT when
\* the body passes the validations, 400 VALIDATION_ERROR when it does not;
\* register creates the account with perfil PACIENTE whatever the body asks.
C25_EmailUnico ==
    /\ EmailsDistintos(prisma)
    /\ (req.op \in {"register", "createUser"} /\ EmailJaUsado)
         => IF CadastroValido
            THEN Recusado(409, "RESOURCE_CONFLICT")
            ELSE Recusado(400, "VALIDATION_ERROR")
    /\ (req.op = "register" /\ res.status = 201)
         => \A u \in prisma.usuario \ pre.usuario : u.perfil = "PACIENTE"
    /\ (req.op = "updateUser" /\ res.status = 200 /\ truthyStr(req.body, "email"))
         => \E u \in prisma.usuario : u.id = req.id /\ u.email = req.body.email

\* C25 witness: a valid sign-up named the address of a stored user and was
\* answered 409
C25_Witness ==
    /\ req.op = "register"
    /\ EmailJaUsado
    /\ CadastroValido
    /\ Recusado(409, "RESOURCE_CONFLICT")

\* C25: a sign-up that asked for perfil ADMIN created a PACIENTE
C25_RegistroPaciente ==
    /\ req.op = "register"
    /\ res.status = 201
    /\ has(req.body, "perfil")
    /\ \E u \in prisma.usuario \ pre.usuario : u.perfil = "PACIENTE"

\* C25: an update that named the address of another user changed nothing
C25_UpdateEmailUsado ==
    /\ req.op = "updateUser"
    /\ EmailJaUsado
    /\ \E u \in pre.usuario : u.id = req.id /\ u.email # req.body.email
    /\ prisma = pre
    /\ res.status = 500

---------------------------------------------------------------------------
(* Error mapping under concurrent push-token requests *)

\* C26: when a storage call inside a handler throws a known conflict signal
\* (P2002) or a known not-found signal (P2025), the response is the one of
\* the taxonomy, 409 RESOURCE_CONFLICT or 404 RESOURCE_NOT_FOUND; only other
\* errors are answered 500 INTERNAL_SERVER_ERROR.
C26_SinaisMapeados ==
    \A i \in DOMAIN inflight :
        LET f == inflight[i] IN
        f.log # NoErro
        => /\ f.res.status = errorHandler(f.log).status
           /\ f.res.code = errorHandler(f.log).code

\* C26 as the code has it: whatever a storage call throws, the handler's own
\* catch block answers 500 INTERNAL_SERVER_ERROR and the store is unchanged
C26_TudoQuinhentos ==
    /\ \A i \in DOMAIN inflight :
          inflight[i].log # NoErro
          => inflight[i].res.status = 500 /\ inflight[i].res.code = "INTERNAL_SERVER_ERROR"
    /\ res.status = 500 => prisma = pre

\* C26 witness: two deletes of one row by its owner both found it; the
\* second delete call threw P2025 and was answered 500
C26_Witness ==
    \E i, j \in DOMAIN inflight :
        /\ i # j
        /\ inflight[i].op = "deletePushToken" /\ inflight[j].op = "deletePushToken"
        /\ inflight[i].id = inflight[j].id
        /\ inflight[i].pc = "done" /\ inflight[i].res.status = 200
        /\ inflight[j].pc = "done" /\ inflight[j].log = PrismaErro("P2025")
        /\ inflight[j].res.status = 500

---------------------------------------------------------------------------
(* Sessions: login and refresh advance from one await to the next while   *)
(* the administrator updates and deletes users                            *)

\* most login and refresh requests in flight together
MaxSessoes == 2

\* process.env.REFRESH_JWT_SECRET || process.env.JWT_SECRET, with
\* REFRESH_JWT_SECRET not set
RefreshSecret == JwtSecret

\* jwt.sign(payload, secret, { expiresIn })
jwtSign(payload, secret) == [payload |-> payload, secret |-> secret]

\* bcrypt.compare(senha, senhaHash)
bcryptCompare(senha, senhaHash) == senhaHash = bcryptHash(senha)

\* buscou tells that the handler's user lookup returned and lido is its
\* result, res is the status and code of the response, tokens the tokens it
\* carries, respostas the number of responses sent, log what the catch block
\* wrote
SessaoLivre ==
    [pc |-> "idle", op |-> "none", body |-> NoBody, decodedId |-> NULL,
     buscou |-> FALSE, lido |-> {},
     res |-> NoRes, tokens |-> NoBody, respostas |-> 0, log |-> NoErro]

\* res.status(s).json(...) and return
ResponderSessao(f, r) == [f EXCEPT !.pc = "done", !.res = r, !.respostas = @ + 1]

\* res.json({ message, accessToken, ... }) and return
EmitirSessao(f, tokens) ==
    [ResponderSessao(f, Resp(200, "OK", NULL)) EXCEPT !.tokens = tokens]

\* the error of a storage call that fails for a reason outside the taxonomy
\* (connection lost)
ErroDeConexao == [name |-> "PrismaClientInitializationError", code |-> "P1001"]

\* login arrives: the required-field check runs up to the first await
receberLogin(i, body) ==
    LET f == [SessaoLivre EXCEPT !.pc = "findEmail", !.op = "login", !.body = body] IN
    /\ inflight[i].pc = "idle"
    /\ Avancar(i, IF ~truthyStr(body, "email") \/ ~truthySeq(body, "senha")
                  THEN ResponderSessao(f, Err(400, "VALIDATION_ERROR"))
                  ELSE f)
    /\ UNCHANGED prisma

\* await prisma.usuario.findUnique({ where: { email } }), inside try: a
\* failure is caught and answered 500
awaitFindEmail(i, falha) ==
    LET f == inflight[i]
        usuario == findUniqueEmail(prisma.usuario, f.body.email)
        g == [f EXCEPT !.buscou = TRUE, !.lido = usuario] IN
    /\ f.pc = "findEmail"
    /\ Avancar(i, IF falha
                  THEN ResponderSessao([f EXCEPT !.log = ErroDeConexao], catchBlock(ErroDeConexao))
                  ELSE IF usuario = {}
                       THEN ResponderSessao(g, Err(401, "AUTH_INVALID_CREDENTIALS"))
                  ELSE IF ~The(usuario).ativo
                       THEN ResponderSessao(g, Err(401, "AUTH_FORBIDDEN"))
                  ELSE [g EXCEPT !.pc = "bcrypt"])
    /\ UNCHANGED prisma

\* the two tokens login signs for the user it read
loginTokens(usuario) ==
    [accessToken  |-> jwtSign([id |-> usuario.id, perfil |-> usuario.perfil], JwtSecret),
     refreshToken |-> jwtSign([id |-> usuario.id], RefreshSecret)]

\* await bcrypt.compare(senha, usuario.senhaHash), then the tokens
awaitBcrypt(i) ==
    LET f == inflight[i]
        usuario == The(f.lido) IN
    /\ f.pc = "bcrypt"
    /\ Avancar(i, IF ~bcryptCompare(f.body.senha, usuario.senhaHash)
                  THEN ResponderSessao(f, Err(401, "AUTH_INVALID_CREDENTIALS"))
                  ELSE EmitirSessao(f, loginTokens(usuario)))
    /\ UNCHANGED prisma

\* refresh arrives: the required-field check, then jwt.verify, which calls
\* its callback; the callback runs up to its await
receberRefresh(i, body) ==
    LET f == [SessaoLivre EXCEPT !.pc = "findId", !.op = "refresh", !.body = body]
        v == jwtVerify(body.refreshToken, RefreshSecret) IN
    /\ inflight[i].pc = "idle"
    /\ Avancar(i, IF ~truthyStr(body, "refreshToken")
                  THEN ResponderSessao(f, Err(400, "VALIDATION_ERROR"))
                  ELSE IF v.err
                       THEN ResponderSessao(f, Err(401, "AUTH_INVALID_TOKEN"))
                  ELSE [f EXCEPT !.decodedId = v.decoded.id])
    /\ UNCHANGED prisma

\* mutant: the callback does not look at ativo
refreshRecusadoSoAusente(usuario) == usuario = {}

\* the access token refresh signs for the user it read
refreshTokens(usuario) ==
    [accessToken |-> jwtSign([id |-> usuario.id, perfil |-> usuario.perfil], JwtSecret)]

\* "if (!usuario || !usuario.ativo)"
refreshRecusado(usuario) == usuario = {} \/ ~The(usuario).ativo

\* await prisma.usuario.findUnique({ where: { id: decoded.id } }) inside the
\* async callback of jwt.verify: refresh has returned by now, so a failure
\* rejects the callback's promise, which nobody handles, and no response is
\* sent
awaitFindDecoded(i, falha) ==
    LET f == inflight[i]
        usuario == findUnique(prisma.usuario, f.decodedId)
        g == [f EXCEPT !.buscou = TRUE, !.lido = usuario] IN
    /\ f.pc = "findId"
    /\ Avancar(i, IF falha THEN [f EXCEPT !.pc = "rejected"]
                  ELSE IF refreshRecusado(usuario)
                       THEN ResponderSessao(g, Err(401, "AUTH_FORBIDDEN"))
                  ELSE EmitirSessao(g, refreshTokens(The(usuario))))
    /\ UNCHANGED prisma

\* the response went out; the connection slot takes the next request
concluirSessao(i) ==
    /\ inflight[i].pc = "done"
    /\ Avancar(i, SessaoLivre)
    /\ UNCHANGED prisma

\* login bodies: the right password, a wrong one, an unknown address, no
\* password
LoginBodies ==
    { [email |-> "p1@c", senha |-> Senha8],
      [email |-> "p1@c", senha |-> Senha9],
      [email |-> "x@c", senha |-> Senha8],
      [email |-> "p1@c"] }

\* refresh bodies: the refresh token of p1, an expired token, a token signed
\* with another secret, none
RefreshBodies ==
    { [refreshToken |-> "jwt.p1.refresh"],
      [refreshToken |-> "jwt.p1.velho"],
      [refreshToken |-> "jwt.adm.falso"],
      NoBody }

\* what the administrator changes of user p1 meanwhile
SessaoUpdateBodies == { [perfil |-> "MEDICO"], [ativo |-> FALSE], [ativo |-> TRUE] }

\* updateUser and deleteUser by the administrator, between the steps of the
\* sessions; their responses are the subject of the user-management
\* specification and are not kept here
adminUpdateUser(id, body) ==
    /\ prisma' = updateUserRun(id, body, prisma).db
    /\ UNCHANGED <<tz, req, res, pre, inflight>>

adminDeleteUser(id) ==
    /\ ~usuarioReferenciado(prisma, id)
    /\ prisma' = deleteUserRun(id, prisma).db
    /\ UNCHANGED <<tz, req, res, pre, inflight>>

InitAuth ==
    /\ prisma = PrismaVazio({u \in Usuarios0 : u.id \in {"adm", "p1"}})
    /\ tz = 0
    /\ req = NoReq
    /\ res = NoRes
    /\ pre = prisma
    /\ inflight = [i \in 1..MaxSessoes |-> SessaoLivre]

PassoDaSessao(i) ==
    \/ \E falha \in BOOLEAN : awaitFindEmail(i, falha)
    \/ awaitBcrypt(i)
    \/ \E falha \in BOOLEAN : awaitFindDecoded(i, falha)
    \/ concluirSessao(i)

NextAuth ==
    \/ \E i \in 1..MaxSessoes :
          \/ \E b \in LoginBodies : receberLogin(i, b)
          \/ \E b \in RefreshBodies : receberRefresh(i, b)
          \/ PassoDaSessao(i)
    \/ \E b \in SessaoUpdateBodies : adminUpdateUser("p1", b)
    \/ adminDeleteUser("p1")

SpecAuth == InitAuth /\ [][NextAuth]_vars

\* a handler that was started runs on: every await completes
SpecAuthLive == SpecAuth /\ \A i \in 1..MaxSessoes : WF_inflight(PassoDaSessao(i))

---------------------------------------------------------------------------
(* Properties of the session specification *)

\* C27: every request eventually receives exactly one response, also when a
\* storage call fails: a login or refresh request that was received is
\* eventually answered, and never answered twice.
C27_TodaRequisicaoRespondida ==
    /\ [](\A i \in 1..MaxSessoes : inflight[i].respostas <= 1)
    /\ \A i \in 1..MaxSessoes :
          (inflight[i].pc # "idle")
            ~> (inflight[i].pc = "done" /\ inflight[i].respostas = 1)

\* C27 for login alone: a login request that was received is eventually
\* answered, once; a failed lookup is answered 500
C27_LoginRespondido ==
    /\ [](\A i \in 1..MaxSessoes :
            /\ inflight[i].respostas <= 1
            /\ inflight[i].log # NoErro => inflight[i].res.status = 500)
    /\ \A i \in 1..MaxSessoes :
          (inflight[i].op = "login")
            ~> (inflight[i].pc = "done" /\ inflight[i].respostas = 1)

\* C27 witness: the user lookup of a refresh request failed and the request
\* is left without a response
C27_Witness ==
    \E i \in 1..MaxSessoes :
        /\ inflight[i].op = "refresh"
        /\ inflight[i].pc = "rejected"
        /\ inflight[i].respostas = 0
        /\ inflight[i].res.status = 0

\* the user the lookup of frame f returned is missing or inactive
SemUsuarioAtivo(f) == f.lido = {} \/ ~The(f.lido).ativo

\* C30: login and refresh never issue a token for a user who, at the time of
\* the handler's user lookup, does not exist or has ativo false: both answer
\* 401 and carry no token; a response that carries tokens was computed from
\* an active user, and the access token carries the id and perfil the lookup
\* read, for refresh the perfil stored at refresh time.
C30_SoUsuarioAtivo ==
    \A i \in 1..MaxSessoes :
        LET f == inflight[i] IN
        /\ (f.buscou /\ SemUsuarioAtivo(f))
             => /\ f.pc = "done"
                /\ f.res.status = 401
                /\ f.tokens = NoBody
        /\ f.tokens # NoBody
             => /\ f.buscou /\ ~SemUsuarioAtivo(f)
                /\ f.res.status = 200
                /\ f.tokens.accessToken
                     = jwtSign([id |-> The(f.lido).id, perfil |-> The(f.lido).perfil], JwtSecret)
        /\ (f.pc = "done" /\ f.res.status = 200) => f.tokens # NoBody

\* C30 witness: a refresh with the token p1 got as a PACIENTE was answered
\* with an access token of perfil MEDICO, the perfil stored at refresh time
C30_Witness ==
    \E i \in 1..MaxSessoes :
        /\ inflight[i].op = "refresh"
        /\ inflight[i].decodedId = "p1"
        /\ inflight[i].res.status = 200
        /\ inflight[i].tokens # NoBody
        /\ inflight[i].tokens.accessToken.payload = [id |-> "p1", perfil |-> "MEDICO"]

\* C30: a login with the right password and a refresh with a valid token were
\* both answered 401 because the user was inactive at lookup
C30_InativoRecusado ==
    \E i, j \in 1..MaxSessoes :
        /\ inflight[i].op = "login" /\ inflight[j].op = "refresh"
        /\ inflight[i].buscou /\ inflight[j].buscou
        /\ inflight[i].lido # {} /\ inflight[j].lido # {}
        /\ inflight[i].res.status = 401 /\ inflight[i].res.code = "AUTH_FORBIDDEN"
        /\ inflight[j].res.status = 401 /\ inflight[j].res.code = "AUTH_FORBIDDEN"

---------------------------------------------------------------------------
(* Token specification: requests pass the gate while the administrator    *)
(* changes and removes the users the tokens name                           *)

\* one request <<op, id, body>> per route taken, and the changes of users
PedidosToken ==
    { <<"listUsers", 0, NoBody>>, <<"listConsultas", 0, NoBody>>,
      <<"getUser", "p1", NoBody>>,
      <<"updateUser", "adm", [perfil |-> "PACIENTE"]>>,
      <<"updateUser", "adm", [ativo |-> FALSE]>>,
      <<"updateUser", "p1", [perfil |-> "MEDICO"]>>,
      <<"deleteUser", "adm", NoBody>>,
      <<"deleteUser", "p1", NoBody>> }

NextToken ==
    \/ \E p \in PedidosToken, h \in HeadersHttp : receberHttp(p[1], h, p[2], p[3])
    \/ passarAuthMiddleware
    \/ passarRequireRole
    \/ executarHandler
    \/ responderHttp

SpecToken == InitGate /\ [][NextToken]_vars

\* the Authorization header that presents token
Apresenta(token) == [authorization |-> Bearer \o <<" ", token>>]

\* C29: authorization depends only on the presented token, never on the
\* store: in every store the gate admits each valid token with the id and
\* perfil signed into it and refuses each invalid one, and the outcome
\* recorded for the request in flight is the outcome the gate computes in
\* the current store, whatever the handler or earlier requests changed.
C29_SoOToken ==
    /\ \A e \in JwtEmitidos :
          authMiddleware(Apresenta(e.token))
            = IF e.secret = JwtSecret /\ ~e.expirado
              THEN Segue(e.id, e.perfil)
              ELSE Rejeita(401, "AUTH_INVALID_TOKEN")
    /\ GateRodou
         => LET r == authMiddleware(inflight.headers) IN
            IF r.next
            THEN /\ ~GateRejeitou
                 /\ inflight.userId = r.userId
                 /\ inflight.userPerfil = r.userPerfil
            ELSE GateRejeitou /\ inflight.res = r.res

\* C29 witness: the administrator's token passed requireRole(['ADMIN']) and
\* listUsers answered 200 although the stored user is no longer an active
\* ADMIN (role changed, deactivated or removed)
C29_Witness ==
    /\ inflight.op = "listUsers"
    /\ inflight.stage = "done"
    /\ inflight.chamados = <<"authMiddleware", "requireRole", "handler">>
    /\ inflight.res.status = 200
    /\ inflight.userId = "adm"
    /\ inflight.userPerfil = "ADMIN"
    /\ \A u \in prisma.usuario : u.id = "adm" => (u.perfil # "ADMIN" \/ ~u.ativo)

\* C29: the same holds after the user of the token was removed
C29_Removido ==
    /\ GateRodou /\ ~GateRejeitou
    /\ inflight.userId = "p1"
    /\ inflight.userPerfil = "PACIENTE"
    /\ \A u \in prisma.usuario : u.id # "p1"

---------------------------------------------------------------------------
(* Refusal specification: booking, result, push token and user requests,  *)
(* good and bad, one after the other on one store                          *)

\* most booking and result rows one run creates
MaxRecusaLinhas == 2

RecusaCallers == { Admin, <<"p1", "PACIENTE">>, <<"p2", "PACIENTE">>, <<"m1", "MEDICO">> }

\* booking bodies: a good one, one without hora, one whose medicoId is no
\* doctor, one for a patient that does not exist
RecusaBodies ==
    { BodyBase, Sem(BodyBase, "hora"), [BodyBase EXCEPT !.medicoId = "p2"],
      [BodyBase EXCEPT !.pacienteId = GhostId] }

\* update bodies: a status change with detalhes, an unknown status, nothing
RecusaUpdateBodies ==
    { [status |-> "REALIZADA", detalhes |-> "obs"], [status |-> "PENDENTE", detalhes |-> "obs"],
      NoBody }

\* result bodies: a good one, one for an exam that does not exist, one
\* without exameId
RecusaResultadoBodies ==
    { ResultadoBase, [ResultadoBase EXCEPT !.exameId = 2], Sem(ResultadoBase, "exameId") }

\* push token bodies: a good one, a platform outside the list, no platform
RecusaPushBodies ==
    { PushBase, [PushBase EXCEPT !.plataforma = "windows"], Sem(PushBase, "plataforma") }

\* sign-up bodies: a good one, a short password, a stored address
RecusaRegisterBodies ==
    { [nome |-> "Gil", email |-> "g@c", senha |-> Senha8],
      [nome |-> "Gil", email |-> "g@c", senha |-> Senha7],
      [nome |-> "Gil", email |-> "adm@c", senha |-> Senha8] }

\* bodies of createUser: a good one, an unknown perfil, a stored address
RecusaCreateUserBodies ==
    { [nome |-> "Hugo", email |-> "h@c", senha |-> Senha8, perfil |-> "MEDICO"],
      [nome |-> "Hugo", email |-> "h@c", senha |-> Senha8, perfil |-> "ROOT"],
      [nome |-> "Hugo", email |-> "p1@c", senha |-> Senha8, perfil |-> "MEDICO"] }

\* bodies of updateUser: a new nome, a new nome with a short password, a new
\* nome with an unknown perfil
RecusaUpdateUserBodies ==
    { [nome |-> "Iris"], [nome |-> "Iris", senha |-> Senha7], [nome |-> "Iris", perfil |-> "ROOT"] }

NextRecusa ==
    \/ \E c \in RecusaCallers, b \in RecusaBodies :
          /\ req.op = "none"
          /\ Cabe(createRun("consulta", c[1], c[2], b, prisma, tz), prisma, MaxRecusaLinhas)
          /\ createConsulta(c[1], c[2], b)
    \/ \E c \in RecusaCallers, b \in RecusaBodies :
          /\ req.op = "none"
          /\ Cabe(createRun("exame", c[1], c[2], ComNome(b), prisma, tz), prisma, MaxRecusaLinhas)
          /\ createExame(c[1], c[2], ComNome(b))
    \/ \E c \in RecusaCallers, id \in 1..2, b \in RecusaUpdateBodies : updateConsulta(c[1], c[2], id, b)
    \/ \E c \in RecusaCallers, id \in 1..2, b \in RecusaUpdateBodies : updateExame(c[1], c[2], id, b)
    \/ \E c \in RecusaCallers, b \in RecusaResultadoBodies :
          /\ req.op = "none"
          /\ Cabe(createResultadoRun(c[2], b, prisma), prisma, MaxRecusaLinhas)
          /\ createResultado(c[1], c[2], b)
    \/ \E c \in RecusaCallers, b \in RecusaPushBodies : registerPushToken(c[1], c[2], b)
    \/ \E c \in RecusaCallers, id \in 1..2 : deletePushToken(c[1], c[2], id)
    \/ \E b \in RecusaRegisterBodies : register(b)
    \/ \E b \in RecusaCreateUserBodies : createUser(Admin[1], Admin[2], b)
    \/ \E id \in {"p2", GhostId}, b \in RecusaUpdateUserBodies : updateUser(Admin[1], Admin[2], id, b)
    \/ Done

SpecRecusa == InitEdit /\ [][NextRecusa]_vars

\* the statuses of a refusal
StatusDeRecusa == {400, 401, 403, 404, 409}

\* C28: a booking, result, push token or user request that is answered 400,
\* 401, 403, 404 or 409 leaves every stored record unchanged: the store after
\* the handler is the store it found.
C28_RecusaNaoEscreve ==
    res.status \in StatusDeRecusa => prisma = pre

\* C28 witness: a booking for a taken slot was answered 409 while the tables
\* hold rows, among them a push token and a changed user
C28_Witness ==
    /\ req.op = "createConsulta"
    /\ res.status = 409
    /\ prisma.consulta # {}
    /\ prisma.pushToken # {}
    /\ \E u \in prisma.usuario : u.nome = "Iris"

\* C28: a status change by a patient who is not the owner was refused 403
C28_UpdateRecusado ==
    req.op = "updateConsulta" /\ res.status = 403 /\ has(req.body, "detalhes")

\* C28: a push token of an unknown platform was refused 400
C28_PushRecusado ==
    req.op = "registerPushToken" /\ res.status = 400 /\ has(req.body, "plataforma")

\* C28: an update of a user with a short password was refused 400 although
\* the body carries a new nome
C28_UserRecusado ==
    /\ req.op = "updateUser"
    /\ res.status = 400
    /\ has(req.body, "nome")
    /\ \E u \in prisma.usuario : u.id = req.id /\ u.nome # req.body.nome

\* C28: a result for an exam that does not exist was refused 404
C28_ResultadoRecusado ==
    req.op = "createResultado" /\ res.status = 404

=============================================================================
